---- MODULE Spec2Model ----
(***************************************************************************)
(* State-machine model of the ZeroTier transport of nng                    *)
(* (src/transport/zerotier/zerotier.c): one node, its four indexes, its    *)
(* endpoints (listeners and dialers), its pipes with their fragment        *)
(* reassembly queues, and the frames in flight on the virtual network.     *)
(*                                                                         *)
(* Every handler of the C file is an operator from a state record to a     *)
(* state record (zt_xxx(s, ...)); the calls a handler makes are operator   *)
(* applications, its loops are RECURSIVE operators.  An action of the      *)
(* model applies one entry point to the current state.                     *)
(***************************************************************************)
EXTENDS Integers, Sequences, FiniteSets, TLC

VARIABLES
    now,        \* nni_clock(), in usec
    zn_ports,   \* zt_node.zn_ports : port  -> owner
    zn_dynval,  \* next candidate of the ephemeral allocator of zn_ports
    zn_eps,     \* zt_node.zn_eps   : laddr -> endpoint
    zn_pipes,   \* zt_node.zn_pipes : laddr -> pipe
    zn_peers,   \* zt_node.zn_peers : raddr -> pipe
    ep,         \* the zt_ep structures
    pipe,       \* the zt_pipe structures
    net,        \* frames handed to the overlay and not yet delivered
    aio_out,    \* user aios started and not yet finished
    crashed,    \* the process died (failed assertion, use of freed memory)
    rx_log,     \* history: messages handed to reads, in order
    tx_log,     \* history: messages whose send completed, in order
    ev,         \* what the last handler did: frames sent, aios finished
    zt_nodes    \* the zt_node structures made so far, by home path

vars == <<now, zn_ports, zn_dynval, zn_eps, zn_pipes, zn_peers, ep, pipe,
          net, aio_out, crashed, rx_log, tx_log, ev, zt_nodes>>

----------------------------------------------------------------------------
(* Program constants.                                                      *)

zt_ephemeral == 8388608
zt_max_port == 16777215
zt_port_mask == 16777215
PortSpace == 16777216

zt_listenq == 128
zt_listen_expire == 60000000
zt_conn_attempts == 12
zt_conn_interval == 5000000
zt_recvq == 2
zt_recv_stale == 1000000

zt_op_data == 0
zt_op_data_mf == 1
zt_op_conn_req == 16
zt_op_conn_ack == 18
zt_op_disc_req == 32
zt_op_ping_req == 48
zt_op_ping_ack == 50
zt_op_error == 64

zt_offset_err_msg == 13
zt_offset_data_data == 20
zt_size_headers == 12
zt_ethertype == 2305
zt_version == 1
zt_size_conn_req == 14
zt_size_conn_ack == 14
zt_size_disc_req == 12
zt_size_data == 20

zt_err_refused == 1
zt_err_notconn == 2
zt_err_wrongsp == 3
zt_err_proto == 4
zt_err_msgsize == 5
zt_err_unknown == 6

NNI_TIME_ZERO == 0
NNG_EADDRINUSE == "NNG_EADDRINUSE"
NNG_EADDRINVAL == "NNG_EADDRINVAL"
NNG_ECLOSED == "NNG_ECLOSED"
NNG_EMSGSIZE == "NNG_EMSGSIZE"
NNG_EPROTO == "NNG_EPROTO"
NNG_ETIMEDOUT == "NNG_ETIMEDOUT"
NNG_ECONNREFUSED == "NNG_ECONNREFUSED"
NNG_ETRANERR == "NNG_ETRANERR"
NNG_ECANCELED == "NNG_ECANCELED"
NNG_ENOMEM == "NNG_ENOMEM"

----------------------------------------------------------------------------
(* Bounds of the model.                                                    *)

MaxPipes == 4        \* zt_pipe structures that can be live at once
MaxMade == 2         \* pipes a listener creates in one behaviour
MaxDials == 1        \* ports a dialer binds in one behaviour
MaxInFlight == 1     \* frames the overlay holds at once
MaxHeadAdv == 2      \* backlog entries a listener records in one behaviour
MaxSends == 1        \* completed sends recorded in tx_log
MaxReads == 2        \* completed reads recorded in rx_log
MaxFed == 3          \* DATA frames handed to the reassembly of a pipe

----------------------------------------------------------------------------
(* Addresses: node id in the upper 40 bits, port in the lower 24.          *)

Addr(node, port) == node * PortSpace + port
AddrPort(a) == a % PortSpace
AddrNode(a) == a \div PortSpace

Min(a, b) == IF a < b THEN a ELSE b

----------------------------------------------------------------------------
(* The topology: one node, a listener on a static port, two dialers that   *)
(* dial it, and a remote node whose frames the environment supplies.       *)

zn_self == 1                         \* ZT_Node_address() of the node
RemoteNode == 2                      \* node id of the remote peers
ListenPort == 9001                   \* port of the listener's URL

Listeners == {1}
Dialers == {2, 3}
EpIds == Listeners \cup Dialers
PipeIds == 1..MaxPipes
NULL == 0
NNG_OK == "OK"
NoMsg == <<-1>>                      \* a NULL nni_msg pointer
Junk == -2                           \* a byte of a buffer never written

SeedPort == zt_max_port - 1          \* nni_random() seed of the allocator
RandIds == {65535}                   \* values of (uint16_t) nni_random()
SpProto(e) == 16 + e                 \* nni_sock_proto() of the ep's socket
PhyMtu == 32                         \* physicalMtu of the network config
RcvMax == 12                         \* recv-max-size set on the endpoints

\* The instants at which the clock is observed after 0: around the expiry
\* of a backlog entry queued at 0 or at 1, and around the staleness limit of
\* a reassembly slot.
ListenInstants ==
    {1, zt_listen_expire, zt_listen_expire + 1, zt_listen_expire + 2}
StaleInstants == {1, zt_recv_stale, zt_recv_stale + 1}

----------------------------------------------------------------------------
(* nni_idhash (core/idhash.c): a map from 64-bit keys to pointers, here a  *)
(* function whose DOMAIN is the set of keys present.                       *)

IdEmpty == [k \in {} |-> NULL]
nni_idhash_find(m, k) == k \in DOMAIN m
nni_idhash_remove(m, k) == [x \in (DOMAIN m) \ {k} |-> m[x]]
nni_idhash_put(m, k, v) == [x \in (DOMAIN m) \cup {k} |-> IF x = k THEN v ELSE m[x]]

\* nni_idhash_insert: 0 on success, NNG_EADDRINUSE when the key is present.
nni_idhash_insert(m, k, v) ==
    IF k \in DOMAIN m THEN [rv |-> NNG_EADDRINUSE, m |-> m]
    ELSE [rv |-> NNG_OK, m |-> nni_idhash_put(m, k, v)]

\* nni_idhash_alloc: probe forward from the current candidate, wrapping at
\* the upper limit, until a free key is found.
RECURSIVE idhash_probe(_, _)
idhash_probe(m, d) ==
    LET nxt == IF d + 1 > zt_max_port THEN zt_ephemeral ELSE d + 1
    IN  IF d \notin DOMAIN m THEN [id |-> d, dynval |-> nxt]
        ELSE idhash_probe(m, nxt)

nni_idhash_alloc(m, d, v) ==
    LET r == idhash_probe(m, d)
    IN  [id |-> r.id, dynval |-> r.dynval, m |-> nni_idhash_put(m, r.id, v)]

----------------------------------------------------------------------------
(* The state record the handlers work on.                                  *)

St ==
    [now |-> now, ports |-> zn_ports, dynval |-> zn_dynval, eps |-> zn_eps,
     pipes |-> zn_pipes, peers |-> zn_peers, ep |-> ep, pipe |-> pipe,
     net |-> net, aio_out |-> aio_out, crashed |-> crashed,
     rx_log |-> rx_log, tx_log |-> tx_log, ev |-> ev, nodes |-> zt_nodes,
     cap |-> FALSE]

\* The handler ran to its end within the bounds of the model.
Commit(s) ==
    /\ ~s.cap
    /\ now' = s.now
    /\ zn_ports' = s.ports
    /\ zn_dynval' = s.dynval
    /\ zn_eps' = s.eps
    /\ zn_pipes' = s.pipes
    /\ zn_peers' = s.peers
    /\ ep' = s.ep
    /\ pipe' = s.pipe
    /\ net' = s.net
    /\ aio_out' = s.aio_out
    /\ crashed' = s.crashed
    /\ rx_log' = s.rx_log
    /\ tx_log' = s.tx_log
    /\ ev' = s.ev
    /\ zt_nodes' = s.nodes

\* zt_lk as a handler starts: not held by its thread.  depth counts the
\* locks the handler has taken and not released, over the unlocks it made
\* without holding the lock, bare names the state it touched without it.
NoLock == [depth |-> 0, over |-> 0, bare |-> {}]

NoEv == [op |-> <<"init">>, sent |-> <<>>, fin |-> <<>>, lk |-> NoLock]

\* Entry of a handler: forget what the previous one did.
Enter(s, op) ==
    [s EXCEPT !.ev = [op |-> op, sent |-> <<>>, fin |-> <<>>, lk |-> NoLock]]

\* nni_mtx_lock(&zt_lk) and nni_mtx_unlock(&zt_lk) in a handler.
nni_mtx_lock(s) == [s EXCEPT !.ev.lk.depth = @ + 1]
nni_mtx_unlock(s) ==
    IF s.ev.lk.depth = 0 THEN [s EXCEPT !.ev.lk.over = 1]
    ELSE [s EXCEPT !.ev.lk.depth = @ - 1]

\* The handler reads or writes the state named what.
access(s, what) ==
    IF s.ev.lk.depth = 0 THEN [s EXCEPT !.ev.lk.bare = @ \cup {what}] ELSE s

----------------------------------------------------------------------------
(* nni_aio (core/aio.c), as far as the transport uses it.                  *)

Completion(s, a, rv, p, m) ==
    [aio |-> a, rv |-> rv, pipe |-> p, msg |-> m, live |-> a \in s.aio_out]

\* nni_aio_start on a user aio.
nni_aio_start(s, a) == [s EXCEPT !.aio_out = @ \cup {a}]

nni_aio_finish_error(s, a, rv) ==
    [s EXCEPT !.aio_out = @ \ {a},
              !.ev.fin = Append(@, Completion(s, a, rv, NULL, NoMsg))]

nni_aio_finish_pipe(s, a, p) ==
    [s EXCEPT !.aio_out = @ \ {a},
              !.pipe[p].zp_user = TRUE,
              !.ev.fin = Append(@, Completion(s, a, NNG_OK, p, NoMsg))]

nni_aio_finish_msg(s, a, m) ==
    [s EXCEPT !.aio_out = @ \ {a},
              !.ev.fin = Append(@, Completion(s, a, NNG_OK, NULL, m))]

nni_aio_finish(s, a, rv) ==
    [s EXCEPT !.aio_out = @ \ {a},
              !.ev.fin = Append(@, Completion(s, a, rv, NULL, NoMsg))]

----------------------------------------------------------------------------
(* Frames.  A frame carries the opcode, the two addresses (node from the   *)
(* MAC, port from the header), its length and its opcode-specific fields,  *)
(* and the ethertype, flags, version and reserved bytes of its header.     *)

\* A frame as zt_send fills it in.
Frame(op, raddr, laddr, arg, body, len) ==
    [op |-> op, dst |-> raddr, src |-> laddr, arg |-> arg, body |-> body,
     len |-> len, ethertype |-> zt_ethertype, flags |-> 0,
     version |-> zt_version, zero1 |-> 0, zero2 |-> 0]

\* zt_send: fill in the header and hand the frame to the overlay.  A frame
\* for this node comes back through zt_virtual_recv; any other leaves.  The
\* overlay is lossy: it holds MaxInFlight frames and loses what exceeds them.
zt_send(s, op, raddr, laddr, arg, body, len) ==
    LET f == Frame(op, Addr(AddrNode(raddr), raddr % (zt_port_mask + 1)),
                   Addr(AddrNode(laddr), laddr % (zt_port_mask + 1)),
                   arg, body, len)
    IN  [s EXCEPT !.ev.sent = Append(@, f),
                  !.net = IF AddrNode(raddr) = zn_self
                             /\ Cardinality(@) < MaxInFlight
                          THEN @ \cup {f} ELSE @]

zt_send_err(s, raddr, laddr, err, msglen) ==
    zt_send(s, zt_op_error, raddr, laddr, <<err>>, <<>>,
            msglen + zt_offset_err_msg)

zt_pipe_send_disc_req(s, p) ==
    zt_send(s, zt_op_disc_req, s.pipe[p].zp_raddr, s.pipe[p].zp_laddr,
            <<>>, <<>>, zt_size_disc_req)

\* zt_pipe_send_conn_ack announcing the protocol of the peer.
zt_pipe_send_conn_ack_peer(s, p) ==
    zt_send(s, zt_op_conn_ack, s.pipe[p].zp_raddr, s.pipe[p].zp_laddr,
            <<s.pipe[p].zp_peer>>, <<>>, zt_size_conn_ack)

zt_pipe_send_conn_ack(s, p) ==
    zt_send(s, zt_op_conn_ack, s.pipe[p].zp_raddr, s.pipe[p].zp_laddr,
            <<s.pipe[p].zp_proto>>, <<>>, zt_size_conn_ack)

zt_ep_send_conn_req(s, e) ==
    zt_send([s EXCEPT !.ep[e].ze_reqs = @ + 1],
            zt_op_conn_req, s.ep[e].ze_raddr, s.ep[e].ze_laddr,
            <<s.ep[e].ze_proto>>, <<>>, zt_size_conn_req)

----------------------------------------------------------------------------
(* zt_fraglist: one reassembly slot.  fl_missing is the bitmap, one set of *)
(* bit numbers (0..7) per byte; fl_msg is the message body, NoMsg when the *)
(* pointer is NULL.  fl_got (history) is the set of fragment numbers whose *)
(* payload has been copied into fl_msg.                                    *)

Bits(n) == {b \in 0..7 : b < n}          \* the byte (1 << n) - 1
AllBits == 0..7                          \* the byte 0xff

FragList(missingsz) ==
    [fl_time |-> NNI_TIME_ZERO, fl_msgid |-> 0, fl_ready |-> FALSE,
     fl_fragsz |-> 0, fl_nfrags |-> 0,
     fl_missing |-> [i \in 0..(missingsz - 1) |-> {}],
     fl_missingsz |-> missingsz, fl_msg |-> NoMsg, fl_got |-> {}]

zt_fraglist_clear(fl) ==
    [fl EXCEPT !.fl_ready = FALSE, !.fl_msgid = 0, !.fl_time = NNI_TIME_ZERO,
               !.fl_msg = NoMsg,
               !.fl_missing = [i \in 0..(fl.fl_missingsz - 1) |-> {}],
               !.fl_got = {}]

\* nni_msg_alloc: a body of n bytes, none of them written yet.
nni_msg_alloc(n) == [i \in 1..n |-> Junk]

\* nni_msg_chop: drop n bytes from the end; fails (message unchanged) when
\* the message is shorter than n.  n is a size_t: a negative difference is
\* a huge value.
nni_msg_chop(m, n) ==
    IF n < 0 \/ n > Len(m) THEN m ELSE SubSeq(m, 1, Len(m) - n)

\* memcpy(body + off, data, len) within the bytes of the body.
MemCpy(m, off, data) ==
    [i \in 1..Len(m) |->
        IF i > off /\ i <= off + Len(data) THEN data[i - off] ELSE m[i]]

----------------------------------------------------------------------------
(* zt_pipe.  zp_st tells whether the structure is unused ("none"), live    *)
(* ("open") or released by zt_pipe_fini while still referenced ("freed").  *)
(* zp_ep and zp_user are history: the endpoint that created the pipe and   *)
(* whether the pipe has been handed to a user aio; zp_uclose: the owner    *)
(* has called zt_pipe_close; zp_fed: the DATA frames handed to             *)
(* zt_pipe_recv_data, as <<msgid, fragno>>, in order.                      *)

NoPipe ==
    [zp_st |-> "none", zp_laddr |-> 0, zp_raddr |-> 0, zp_peer |-> 0,
     zp_proto |-> 0, zp_next_msgid |-> 0, zp_rcvmax |-> 0, zp_mtu |-> 0,
     zp_closed |-> FALSE, zp_user_rxaio |-> NULL,
     zp_recvq |-> [i \in 0..(zt_recvq - 1) |-> FragList(0)],
     zp_ep |-> 0, zp_user |-> FALSE, zp_uclose |-> FALSE, zp_fed |-> <<>>]

\* A read completed with the message of slot fl; whole: every fragment of
\* the message had been stored in the slot.
Logged(log, p, fl) ==
    Append(log, [pipe |-> p, msg |-> fl.fl_msg,
                 whole |-> fl.fl_got = 0..(fl.fl_nfrags - 1)])

\* zt_pipe_dorecv: with a read pending, sweep the slots; a stale slot is
\* cleared, the first ready one is handed to the read.
RECURSIVE dorecv_loop(_, _, _)
dorecv_loop(s, p, i) ==
    IF i >= zt_recvq THEN s
    ELSE LET fl == s.pipe[p].zp_recvq[i]
         IN  IF s.now > fl.fl_time + zt_recv_stale
             THEN dorecv_loop(
                      [s EXCEPT !.pipe[p].zp_recvq[i] = zt_fraglist_clear(fl)],
                      p, i + 1)
             ELSE IF ~fl.fl_ready THEN dorecv_loop(s, p, i + 1)
             ELSE LET t == nni_aio_finish_msg(s, s.pipe[p].zp_user_rxaio,
                                              fl.fl_msg)
                  IN  [t EXCEPT !.pipe[p].zp_recvq[i] = zt_fraglist_clear(fl),
                                !.rx_log = Logged(@, p, fl),
                                !.cap = @ \/ Len(s.rx_log) >= MaxReads]

zt_pipe_dorecv(s, p) ==
    IF s.pipe[p].zp_user_rxaio = NULL THEN s ELSE dorecv_loop(s, p, 0)

\* The slot search of zt_pipe_recv_data: the slot holding msgid ends the
\* search; otherwise the slot with the smallest fl_time.  Yields the slot
\* and the value the loop variable i is left with.
RECURSIVE find_slot(_, _, _, _)
find_slot(q, msgid, i, slot) ==
    IF i >= zt_recvq THEN [slot |-> slot, i |-> i]
    ELSE IF msgid = q[i].fl_msgid THEN [slot |-> i, i |-> i]
    ELSE IF slot < 0 THEN find_slot(q, msgid, i + 1, i)
    ELSE IF q[i].fl_time < q[slot].fl_time THEN find_slot(q, msgid, i + 1, i)
    ELSE find_slot(q, msgid, i + 1, slot)

\* Outcomes of a store or load outside an allocation: it lands in the
\* allocator's slack and changes nothing the program reads, or the process
\* dies.
UbOutcomes == {"slack", "crash"}

\* The bitmap set-up of a slot taken over for a new message:
\*     memset(fl->fl_missing, 0xff, nfrags / 8);
\*     fl->fl_missing[i] |= ((1 << (nfrags % 8)) - 1);
\* where i is what the slot search left in the loop variable.
SetMissing(fl, nfrags, i) ==
    [k \in 0..(fl.fl_missingsz - 1) |->
        (IF k < nfrags \div 8 THEN AllBits ELSE fl.fl_missing[k])
        \cup (IF k = i THEN Bits(nfrags % 8) ELSE {})]

\* Whether that set-up writes outside the fl_missingsz bytes of the bitmap.
SetMissingOverruns(fl, nfrags, i) ==
    \/ nfrags \div 8 > fl.fl_missingsz
    \/ i >= fl.fl_missingsz

\* fl->fl_missing[k], a byte read outside the bitmap reading as zero.
MissingByte(fl, k) == IF k < fl.fl_missingsz THEN fl.fl_missing[k] ELSE {}

BitmapClear(fl) == \A k \in 0..(fl.fl_missingsz - 1) : fl.fl_missing[k] = {}

\* zt_pipe_recv_data, from the slot search on (the frame passed the size
\* screen and the stale sweep has run).
recv_data_store(s, p, f, plen, ub) ==
    LET msgid == f.arg[1]
        fragsz == f.arg[2]
        fragno == f.arg[3]
        nfrags == f.arg[4]
        fs == find_slot(s.pipe[p].zp_recvq, msgid, 0, -1)
        slot == fs.slot
        fl0 == s.pipe[p].zp_recvq[slot]
        fresh == fl0.fl_msgid # msgid
        flc == zt_fraglist_clear(fl0)
        overrun == fresh /\ SetMissingOverruns(flc, nfrags, fs.i)
        fl1 == IF fresh
               THEN [flc EXCEPT !.fl_msg = nni_msg_alloc(nfrags * fragsz),
                                !.fl_nfrags = nfrags, !.fl_fragsz = fragsz,
                                !.fl_msgid = msgid,
                                !.fl_missing = SetMissing(flc, nfrags, fs.i)]
               ELSE fl0
        put(fl) == [s EXCEPT !.pipe[p].zp_recvq[slot] = fl]
        bad == \/ nfrags # fl1.fl_nfrags
               \/ fragsz # fl1.fl_fragsz
               \/ fragno >= nfrags
               \/ fragsz = 0
               \/ nfrags = 0
               \/ (fragno # nfrags - 1 /\ plen # fragsz)
        bit == fragno % 8
        data == SubSeq(f.body, 1, Min(plen, Len(f.body)))
        copied == MemCpy(fl1.fl_msg, fragno * fragsz, data)
        last == fragno = nfrags - 1
        \* len wrapped below zero (a runt frame with no read pending), or a
        \* last fragment longer than fragsz: memcpy leaves the message
        wrapped == plen < 0
        overlong == plen > fragsz
        body == IF last THEN nni_msg_chop(copied, fragsz - plen) ELSE copied
        fl2 == [fl1 EXCEPT !.fl_missing =
                               [k \in DOMAIN @ |->
                                   IF k = fragno \div 8 THEN @[k] \ {bit}
                                   ELSE @[k]],
                           !.fl_msg = body,
                           !.fl_got = @ \cup {fragno}]
    IN  IF overrun /\ ub = "crash" THEN [s EXCEPT !.crashed = TRUE]
        ELSE IF bad THEN put(zt_fraglist_clear(fl1))
        ELSE IF bit \in MissingByte(fl1, fragno \div 8) THEN put(fl1)
        ELSE IF wrapped \/ (overlong /\ ub = "crash")
        THEN [s EXCEPT !.crashed = TRUE]
        ELSE IF last /\ Len(body) > s.pipe[p].zp_rcvmax
             THEN put(zt_fraglist_clear(fl2))
        ELSE IF ~BitmapClear(fl2) THEN put(fl2)
        ELSE zt_pipe_dorecv(put([fl2 EXCEPT !.fl_ready = TRUE]), p)

zt_pipe_recv_data(s, p, f, ub) ==
    LET aio == s.pipe[p].zp_user_rxaio
        fragsz == f.arg[2]
        nfrags == f.arg[4]
        plen == f.len - zt_offset_data_data
    IN  IF f.len < zt_size_data /\ aio # NULL
        THEN nni_aio_finish_error(
                 [s EXCEPT !.pipe[p].zp_user_rxaio = NULL,
                           !.pipe[p].zp_closed = TRUE],
                 aio, NNG_EPROTO)
        ELSE IF nfrags * fragsz >= s.pipe[p].zp_rcvmax + fragsz THEN s
        ELSE recv_data_store(zt_pipe_dorecv(s, p), p, f, plen, ub)

----------------------------------------------------------------------------
(* Pipes.                                                                  *)

MinOf(S) == CHOOSE x \in S : \A y \in S : x <= y

\* The index removals of zt_pipe_fini.
pipe_unregister(s, p) ==
    [s EXCEPT !.ports = nni_idhash_remove(@, s.pipe[p].zp_laddr % (zt_port_mask + 1)),
              !.pipes = nni_idhash_remove(@, s.pipe[p].zp_laddr),
              !.peers = nni_idhash_remove(@, s.pipe[p].zp_raddr)]

\* zt_pipe_fini called by the owner of the pipe: unregister, release the
\* slots and the structure.  Releasing a structure that zt_pipe_init had
\* already released is a double free.
zt_pipe_fini(s, p, ub) ==
    LET t == nni_mtx_unlock(
                 pipe_unregister(access(nni_mtx_lock(s), "indexes"), p))
    IN  IF s.pipe[p].zp_st = "freed" /\ ub = "crash"
        THEN [t EXCEPT !.crashed = TRUE]
        ELSE [t EXCEPT !.pipe[p] = NoPipe]

\* The size in bytes of the bitmap zt_pipe_init allocates for each slot.
MissingSz(mtu, rcvmax) ==
    LET maxfrag == mtu - zt_offset_data_data
        maxfrags == (rcvmax + (maxfrag - 1)) \div maxfrag
    IN  (maxfrags + 7) \div 8

\* zt_pipe_init keeping the port of the endpoint in zp_laddr instead of
\* overwriting it with the port allocated.
zt_pipe_init_epport(s, e, raddr, laddr, rnd, ub) ==
    LET free == {i \in PipeIds : s.pipe[i].zp_st = "none"}
        p == MinOf(free)
        al == nni_idhash_alloc(s.ports, s.dynval, <<"pipe", p>>)
        zp_laddr == IF laddr = 0 THEN s.ep[e].ze_laddr ELSE laddr
        rec == [NoPipe EXCEPT !.zp_st = "open", !.zp_raddr = raddr,
                              !.zp_proto = s.ep[e].ze_proto,
                              !.zp_mtu = s.ep[e].ze_phymtu,
                              !.zp_rcvmax = s.ep[e].ze_rcvmax,
                              !.zp_next_msgid = rnd,
                              !.zp_laddr = zp_laddr, !.zp_ep = e]
        s1 == IF laddr = 0
              THEN [s EXCEPT !.ports = al.m, !.dynval = al.dynval,
                             !.pipe[p] = rec,
                             !.ep[e].ze_made = @ + 1,
                             !.cap = @ \/ s.ep[e].ze_made >= MaxMade]
              ELSE [s EXCEPT !.pipe[p] = rec]
        ins1 == nni_idhash_insert(s1.pipes, zp_laddr, p)
        ins2 == nni_idhash_insert(s1.peers, raddr, p)
        failed == ins1.rv # NNG_OK \/ ins2.rv # NNG_OK
        s2 == IF ins1.rv # NNG_OK THEN s1
              ELSE [s1 EXCEPT !.pipes = ins1.m, !.peers = ins2.m]
        recvq == [i \in 0..(zt_recvq - 1) |->
                     FragList(MissingSz(rec.zp_mtu, rec.zp_rcvmax))]
        \* the insert failed: zt_pipe_fini(p), and no return follows it
        s3 == [pipe_unregister(s2, p) EXCEPT !.pipe[p].zp_st = "freed"]
    IN  IF free = {}
        THEN [s |-> [s EXCEPT !.cap = TRUE], p |-> NULL, rv |-> NNG_ENOMEM]
        ELSE IF failed /\ ub = "crash"
        THEN [s |-> [s3 EXCEPT !.crashed = TRUE], p |-> p, rv |-> NNG_OK]
        ELSE IF failed
        THEN [s |-> [s3 EXCEPT !.pipe[p].zp_recvq = recvq], p |-> p,
              rv |-> NNG_OK]
        ELSE [s |-> [s2 EXCEPT !.pipe[p].zp_recvq = recvq], p |-> p,
              rv |-> NNG_OK]

\* zt_pipe_init.  rnd is the value of nni_random(); ub decides what the use
\* of the structure after zt_pipe_fini released it leads to.  Yields the
\* new state, the pipe and the return value.
zt_pipe_init(s, e, raddr, laddr, rnd, ub) ==
    LET free == {i \in PipeIds : s.pipe[i].zp_st = "none"}
        p == MinOf(free)
        al == nni_idhash_alloc(s.ports, s.dynval, <<"pipe", p>>)
        zp_laddr == IF laddr = 0
                    THEN Addr(AddrNode(s.ep[e].ze_laddr), al.id)
                    ELSE laddr
        rec == [NoPipe EXCEPT !.zp_st = "open", !.zp_raddr = raddr,
                              !.zp_proto = s.ep[e].ze_proto,
                              !.zp_mtu = s.ep[e].ze_phymtu,
                              !.zp_rcvmax = s.ep[e].ze_rcvmax,
                              !.zp_next_msgid = rnd,
                              !.zp_laddr = zp_laddr, !.zp_ep = e]
        s1 == IF laddr = 0
              THEN [s EXCEPT !.ports = al.m, !.dynval = al.dynval,
                             !.pipe[p] = rec,
                             !.ep[e].ze_made = @ + 1,
                             !.cap = @ \/ s.ep[e].ze_made >= MaxMade]
              ELSE [s EXCEPT !.pipe[p] = rec]
        ins1 == nni_idhash_insert(s1.pipes, zp_laddr, p)
        ins2 == nni_idhash_insert(s1.peers, raddr, p)
        failed == ins1.rv # NNG_OK \/ ins2.rv # NNG_OK
        s2 == IF ins1.rv # NNG_OK THEN s1
              ELSE [s1 EXCEPT !.pipes = ins1.m, !.peers = ins2.m]
        recvq == [i \in 0..(zt_recvq - 1) |->
                     FragList(MissingSz(rec.zp_mtu, rec.zp_rcvmax))]
        \* the insert failed: zt_pipe_fini(p), and no return follows it
        s3 == [pipe_unregister(s2, p) EXCEPT !.pipe[p].zp_st = "freed"]
    IN  IF free = {}
        THEN [s |-> [s EXCEPT !.cap = TRUE], p |-> NULL, rv |-> NNG_ENOMEM]
        ELSE IF failed /\ ub = "crash"
        THEN [s |-> [s3 EXCEPT !.crashed = TRUE], p |-> p, rv |-> NNG_OK]
        ELSE IF failed
        THEN [s |-> [s3 EXCEPT !.pipe[p].zp_recvq = recvq], p |-> p,
              rv |-> NNG_OK]
        ELSE [s |-> [s2 EXCEPT !.pipe[p].zp_recvq = recvq], p |-> p,
              rv |-> NNG_OK]

\* zt_pipe_close that sends no DISC_REQ.
zt_pipe_close_quiet(s, p) ==
    LET aio == s.pipe[p].zp_user_rxaio
        s1 == [s EXCEPT !.pipe[p].zp_closed = TRUE]
    IN  IF aio # NULL
        THEN nni_aio_finish_error(
                 [s1 EXCEPT !.pipe[p].zp_user_rxaio = NULL], aio, NNG_ECLOSED)
        ELSE s1

\* zt_pipe_close
zt_pipe_close(s, p) ==
    LET aio == s.pipe[p].zp_user_rxaio
        s1 == [s EXCEPT !.pipe[p].zp_closed = TRUE]
        s2 == IF aio # NULL
              THEN nni_aio_finish_error(
                       [s1 EXCEPT !.pipe[p].zp_user_rxaio = NULL],
                       aio, NNG_ECLOSED)
              ELSE s1
    IN  zt_pipe_send_disc_req(s2, p)

\* zt_pipe_recv
zt_pipe_recv(s, p, aio) ==
    LET s1 == nni_aio_start(s, aio)
    IN  IF s1.pipe[p].zp_closed
        THEN nni_aio_finish_error(s1, aio, NNG_ECLOSED)
        ELSE zt_pipe_dorecv([s1 EXCEPT !.pipe[p].zp_user_rxaio = aio], p)

\* zt_pipe_cancel_recv: the cancel routine of a read aio.  The branch for
\* an aio that is not the pending one unlocks zt_lk and falls through (it
\* has no return): the slot is cleared, zt_lk is unlocked a second time
\* (undefined for a mutex that is not locked) and the aio is finished.
zt_pipe_cancel_recv(s, p, aio, rv, ub) ==
    LET s1 == nni_mtx_lock(s)
        s2 == IF access(s1, "zp_user_rxaio").pipe[p].zp_user_rxaio # aio
              THEN nni_mtx_unlock(s1)
              ELSE s1
        s3 == nni_mtx_unlock(
                  [access(s2, "zp_user_rxaio")
                      EXCEPT !.pipe[p].zp_user_rxaio = NULL])
    IN  IF s.pipe[p].zp_user_rxaio # aio /\ ub = "crash"
        THEN [s EXCEPT !.crashed = TRUE, !.ev = s3.ev]
        ELSE nni_aio_finish_error(s3, aio, rv)

\* zt_pipe_recv_disc_req
zt_pipe_recv_disc_req(s, p) ==
    LET aio == s.pipe[p].zp_user_rxaio
    IN  IF aio # NULL
        THEN nni_aio_finish_error(
                 [s EXCEPT !.pipe[p].zp_user_rxaio = NULL,
                           !.pipe[p].zp_closed = TRUE],
                 aio, NNG_ECLOSED)
        ELSE s

\* zt_pipe_virtual_recv: the switch has a case for zt_op_disc_req only.
zt_pipe_virtual_recv(s, p, f) ==
    IF f.op = zt_op_disc_req THEN zt_pipe_recv_disc_req(s, p) ELSE s

\* The bytes of a DATA frame of total length len that lie behind the 20
\* bytes of headers.
WirePayload(data, len) ==
    SubSeq(data, 1, Min(Len(data), len - zt_offset_data_data))

RECURSIVE Flatten(_)
Flatten(iov) == IF iov = <<>> THEN <<>> ELSE Head(iov) \o Flatten(Tail(iov))

\* One frame of zt_pipe_send: zt_send(..., zt_op_data, ..., data, len), len
\* being the length of the chunk.  dbg: NNI_ASSERT is compiled in.
send_chunk(s, p, chunk, id, fragsz, fragno, nfrags, dbg) ==
    IF dbg /\ Len(chunk) < zt_size_headers
    THEN [s EXCEPT !.crashed = TRUE]
    ELSE zt_send(s, zt_op_data, s.pipe[p].zp_raddr, s.pipe[p].zp_laddr,
                 <<id, fragsz, fragno, nfrags>>,
                 WirePayload(chunk, Len(chunk)), Len(chunk))

\* The loop of zt_pipe_send over the gather list.  A buffer longer than
\* fragsz is never consumed (iov_buf advances, iov_len does not): the loop
\* sends chunk after chunk, runs off the end of the buffer and never ends.
RECURSIVE send_loop(_, _, _, _, _, _, _, _)
send_loop(s, p, iov, id, fragsz, fragno, nfrags, dbg) ==
    IF iov = <<>> \/ s.crashed THEN s
    ELSE IF Len(iov[1]) > fragsz
    THEN [send_chunk(s, p, SubSeq(iov[1], 1, fragsz), id, fragsz, fragno,
                     nfrags, dbg)
             EXCEPT !.crashed = TRUE]
    ELSE IF dbg /\ fragno + 1 # nfrags
    THEN [s EXCEPT !.crashed = TRUE]
    ELSE send_loop(
             send_chunk(s, p, iov[1], id, fragsz, fragno, nfrags, dbg),
             p, Tail(iov), id, fragsz, (fragno + 1) % 65536, nfrags, dbg)

\* The record of a completed send in tx_log: the pipe, the body, the pipe
\* registered at the remote address (NULL if there is none) and whether
\* the overlay lost one of the frames.
Sent(s, p, m) ==
    [pipe |-> p, msg |-> m,
     peer |-> IF nni_idhash_find(s.pipes, s.pipe[p].zp_raddr)
              THEN s.pipes[s.pipe[p].zp_raddr] ELSE NULL,
     lost |-> \E i \in DOMAIN s.ev.sent : s.ev.sent[i] \notin s.net]

\* zt_pipe_send taking the counter as the id, zero or not.
zt_pipe_send_noskip(s, p, aio, iov, fragno0, dbg) ==
    LET s1 == nni_aio_start(s, aio)
        fragsz == (s.pipe[p].zp_mtu - zt_offset_data_data) % 65536
        bytes == Len(Flatten(iov))
        nfrags == ((bytes + (fragsz - 1)) \div fragsz) % 65536
        n0 == s.pipe[p].zp_next_msgid
        n1 == (n0 + 1) % 65536
        id == n0
        next == n1
        s2 == [s1 EXCEPT !.pipe[p].zp_next_msgid = next]
        s3 == send_loop(s2, p, iov, id, fragsz, fragno0, nfrags, dbg)
    IN  IF s1.pipe[p].zp_closed
        THEN nni_aio_finish_error(s1, aio, NNG_ECLOSED)
        ELSE IF bytes >= 65534 * fragsz
        THEN nni_aio_finish_error(s1, aio, NNG_EMSGSIZE)
        ELSE IF s3.crashed THEN s3
        ELSE [nni_aio_finish(s3, aio, NNG_OK)
                 EXCEPT !.tx_log = Append(@, Sent(s3, p, Flatten(iov))),
                        !.cap = @ \/ Len(s.tx_log) >= MaxSends]

\* zt_pipe_send.  fragno0 is the value the uninitialised local fragno holds.
zt_pipe_send(s, p, aio, iov, fragno0, dbg) ==
    LET s1 == nni_aio_start(s, aio)
        fragsz == (s.pipe[p].zp_mtu - zt_offset_data_data) % 65536
        bytes == Len(Flatten(iov))
        nfrags == ((bytes + (fragsz - 1)) \div fragsz) % 65536
        n0 == s.pipe[p].zp_next_msgid
        n1 == (n0 + 1) % 65536
        id == IF n0 = 0 THEN n1 ELSE n0
        next == IF n0 = 0 THEN (n1 + 1) % 65536 ELSE n1
        s2 == [s1 EXCEPT !.pipe[p].zp_next_msgid = next]
        s3 == send_loop(s2, p, iov, id, fragsz, fragno0, nfrags, dbg)
    IN  IF s1.pipe[p].zp_closed
        THEN nni_aio_finish_error(s1, aio, NNG_ECLOSED)
        ELSE IF bytes >= 65534 * fragsz
        THEN nni_aio_finish_error(s1, aio, NNG_EMSGSIZE)
        ELSE IF s3.crashed THEN s3
        ELSE [nni_aio_finish(s3, aio, NNG_OK)
                 EXCEPT !.tx_log = Append(@, Sent(s3, p, Flatten(iov))),
                        !.cap = @ \/ Len(s.tx_log) >= MaxSends]

----------------------------------------------------------------------------
(* Nodes.  zt_nodes holds the zt_node structures made so far under their   *)
(* home path: listed, the structure is on the global list of nodes;        *)
(* destroyed, zt_node_destroy has run on it; zn_eplist, the endpoints      *)
(* linked to it through ze_link.  An endpoint names its node in ze_ztn.    *)

DefaultHome == ""                    \* ze_home as NNI_ALLOC_STRUCT leaves it
Homes == {DefaultHome, "/z"}         \* values the home option is set to
NoNode == "NULL"                     \* a NULL zt_node pointer

\* zt_node_create, on success.
NewNode ==
    [zn_closed |-> FALSE, zn_eplist |-> <<>>, listed |-> TRUE,
     destroyed |-> FALSE]

\* The loop of zt_node_find: a node of the list has the path home.
NodeListed(s, home) == home \in DOMAIN s.nodes /\ s.nodes[home].listed

\* zt_node_find when it returns 0: the node of the list with the home of the
\* endpoint, or else a new one, becomes the node of the endpoint, and the
\* endpoint moves to the list of that node.
zt_node_find(s, e) ==
    LET home == s.ep[e].ze_home
        made == IF NodeListed(s, home) THEN s.nodes
                ELSE nni_idhash_put(s.nodes, home, NewNode)
        off == [h \in DOMAIN made |->
                   [made[h] EXCEPT !.zn_eplist =
                        SelectSeq(@, LAMBDA x : x # e)]]
    IN  [s EXCEPT !.ep[e].ze_ztn = home,
                  !.nodes = [off EXCEPT ![home].zn_eplist = Append(@, e)]]

----------------------------------------------------------------------------
(* Endpoints.  ze_creqs is the ring of zt_listenq backlog entries, as the   *)
(* function from the indexes written so far to their entries.              *)
(* creq_st, creq_rv and creq_pipe are the state of ze_creq_aio (the        *)
(* connect-request timer aio): "idle", "armed" (started, running its       *)
(* timeout) or "done" (finished, its callback zt_ep_conn_req_cb not yet    *)
(* run), with the result and the pipe it was finished with, and           *)
(* creq_expire the time its timeout is set to.  ze_queued counts the       *)
(* entries recorded in this behaviour, ze_made the ephemeral ports         *)
(* allocated for the endpoint and its pipes, ze_reqs the CONN_REQ frames   *)
(* sent for the last connect; ze_closed: zt_ep_close has been called;      *)
(* ze_alloc: the structure is allocated (zt_ep_init has run, zt_ep_fini    *)
(* has not).                                                               *)

NoCreq == [cr_expire |-> 0, cr_raddr |-> 0, cr_proto |-> 0]

\* zt_ep_init
NewEp(e) ==
    [ze_mode |-> IF e \in Listeners THEN "LISTEN" ELSE "DIAL",
     ze_laddr |-> IF e \in Listeners THEN Addr(0, ListenPort) ELSE 0,
     ze_raddr |-> IF e \in Listeners THEN 0 ELSE Addr(zn_self, ListenPort),
     ze_proto |-> SpProto(e), ze_rcvmax |-> RcvMax, ze_phymtu |-> PhyMtu,
     ze_aios |-> <<>>, ze_creq_try |-> 0,
     ze_creqs |-> [i \in {} |-> NoCreq],
     ze_creq_head |-> 0, ze_creq_tail |-> 0, ze_queued |-> 0,
     ze_made |-> 0, ze_reqs |-> 0, ze_closed |-> FALSE,
     creq_st |-> "idle", creq_rv |-> NNG_OK, creq_pipe |-> NULL,
     creq_expire |-> 0,
     ze_home |-> DefaultHome, ze_ztn |-> DefaultHome, ze_alloc |-> TRUE]

\* nni_aio_finish_* on ze_creq_aio: the first completion stands until the
\* callback has run.
creq_finish(s, e, rv, p) ==
    IF s.ep[e].creq_st = "done" THEN s
    ELSE [s EXCEPT !.ep[e].creq_st = "done", !.ep[e].creq_rv = rv,
                   !.ep[e].creq_pipe = p]

\* zt_ep_bind_locked with the test for a port in use left out.
zt_ep_bind_locked_nocheck(s, e) ==
    LET laddr == s.ep[e].ze_laddr
        al == nni_idhash_alloc(s.ports, s.dynval, <<"ep", e>>)
        eph == laddr % (zt_port_mask + 1) = 0
        port == IF eph THEN al.id ELSE laddr % (zt_port_mask + 1)
        s1 == IF eph
              THEN [s EXCEPT !.ports = al.m, !.dynval = al.dynval,
                             !.ep[e].ze_made = @ + 1,
                             !.cap = @ \/ s.ep[e].ze_made >= MaxDials]
              ELSE [s EXCEPT !.ports = nni_idhash_put(@, port, <<"ep", e>>)]
        new == Addr(zn_self, port)
    IN  [s |-> [s1 EXCEPT !.ep[e].ze_laddr = new,
                          !.eps = nni_idhash_put(@, new, e)],
         rv |-> NNG_OK]

\* zt_ep_bind_locked: yields the new state and the return value.
zt_ep_bind_locked(s, e) ==
    LET laddr == s.ep[e].ze_laddr
        node == AddrNode(laddr)
        al == nni_idhash_alloc(s.ports, s.dynval, <<"ep", e>>)
        eph == laddr % (zt_port_mask + 1) = 0
        port == IF eph THEN al.id ELSE laddr % (zt_port_mask + 1)
        s1 == IF eph
              THEN [s EXCEPT !.ports = al.m, !.dynval = al.dynval,
                             !.ep[e].ze_made = @ + 1,
                             !.cap = @ \/ s.ep[e].ze_made >= MaxDials]
              ELSE [s EXCEPT !.ports = nni_idhash_put(@, port, <<"ep", e>>)]
        new == Addr(zn_self, port)
        ins == nni_idhash_insert(s1.eps, new, e)
    IN  IF node # 0 /\ node # zn_self THEN [s |-> s, rv |-> NNG_EADDRINVAL]
        ELSE IF ~eph /\ nni_idhash_find(s.ports, port)
        THEN [s |-> s, rv |-> NNG_EADDRINUSE]
        ELSE IF ins.rv # NNG_OK
        THEN [s |-> [s1 EXCEPT !.ep[e].ze_laddr = new,
                               !.ports = nni_idhash_remove(@, port)],
              rv |-> ins.rv]
        ELSE [s |-> [s1 EXCEPT !.ep[e].ze_laddr = new, !.eps = ins.m],
              rv |-> NNG_OK]

\* zt_ep_bind
zt_ep_bind(s, e) ==
    LET b == zt_ep_bind_locked(s, e)
    IN  [b.s EXCEPT !.ev.op = Append(@, b.rv)]

\* Expired with the test of cr_expire left out: nothing is discarded.
Expired_untested(x, tnow) == 0

\* The entries of the backlog of x that zt_ep_doaccept discards at s.now
\* before it stops or pairs one: the expired ones at the tail.
Expired(x, tnow) ==
    LET kept == {i \in x.ze_creq_tail..(x.ze_creq_head - 1) :
                    ~(x.ze_creqs[i % zt_listenq].cr_expire < tnow)}
    IN  IF kept = {} THEN x.ze_creq_head - x.ze_creq_tail
        ELSE MinOf(kept) - x.ze_creq_tail

\* zt_ep_doaccept: pair backlog entries with waiting accepts, dropping the
\* entries that have expired.
RECURSIVE zt_ep_doaccept(_, _, _, _)
zt_ep_doaccept(s, e, rnd, ub) ==
    LET x == s.ep[e]
        tail == x.ze_creq_tail + Expired(x, s.now)
        creq == x.ze_creqs[tail % zt_listenq]
        aio == Head(x.ze_aios)
        s0 == [s EXCEPT !.ep[e].ze_creq_tail = tail]
        s1 == [s EXCEPT !.ep[e].ze_creq_tail = tail + 1,
                        !.ep[e].ze_aios = Tail(@)]
        pi == zt_pipe_init(s1, e, creq.cr_raddr, 0, rnd, ub)
        s2 == [pi.s EXCEPT !.pipe[pi.p].zp_peer = creq.cr_proto]
    IN  IF s.crashed \/ s.cap THEN s
        ELSE IF tail = x.ze_creq_head \/ x.ze_aios = <<>> THEN s0
        ELSE IF pi.s.cap \/ pi.s.crashed THEN pi.s
        ELSE IF pi.rv # NNG_OK
        THEN zt_ep_doaccept(
                 nni_aio_finish_error(
                     zt_send_err(pi.s, creq.cr_raddr, pi.s.ep[e].ze_laddr,
                                 zt_err_unknown, 20),
                     aio, pi.rv),
                 e, rnd, ub)
        ELSE zt_ep_doaccept(
                 nni_aio_finish_pipe(zt_pipe_send_conn_ack(s2, pi.p),
                                     aio, pi.p),
                 e, rnd, ub)

\* zt_ep_accept
zt_ep_accept(s, e, aio, rnd, ub) ==
    zt_ep_doaccept(
        [nni_aio_start(s, aio) EXCEPT !.ep[e].ze_aios = Append(@, aio)],
        e, rnd, ub)

\* The backlog scan of zt_ep_recv_conn_req: an entry for raddr is queued.
InBacklog(x, raddr) ==
    \E i \in x.ze_creq_tail..(x.ze_creq_head - 1) :
        x.ze_creqs[i % zt_listenq].cr_raddr = raddr

\* BacklogFull comparing with < where the code compares with ==.
BacklogFull_less(x) == x.ze_creq_tail + zt_listenq < x.ze_creq_head

\* The test of zt_ep_recv_conn_req for a full listen queue.
BacklogFull(x) == x.ze_creq_tail + zt_listenq = x.ze_creq_head

\* zt_ep_recv_conn_req without its look-up of raddr in zn_peers.
zt_ep_recv_conn_req_nolookup(s, e, raddr, f, rnd, ub) ==
    LET x == s.ep[e]
        i == x.ze_creq_head % zt_listenq
        s1 == [s EXCEPT !.ep[e].ze_creqs =
                            nni_idhash_put(@, i,
                                [cr_proto |-> f.arg[1], cr_raddr |-> raddr,
                                 cr_expire |-> s.now + zt_listen_expire]),
                        !.ep[e].ze_creq_head = @ + 1,
                        !.ep[e].ze_queued = @ + 1,
                        !.cap = @ \/ x.ze_queued >= MaxHeadAdv]
    IN  IF x.ze_mode # "LISTEN"
        THEN zt_send_err(s, raddr, x.ze_laddr, zt_err_proto, 23)
        ELSE IF f.len # zt_size_conn_req
        THEN zt_send_err(s, raddr, x.ze_laddr, zt_err_proto, 18)
        ELSE IF InBacklog(x, raddr) THEN s
        ELSE IF BacklogFull(x) THEN s
        ELSE zt_ep_doaccept(s1, e, rnd, ub)

\* zt_ep_recv_conn_req without its scan of the backlog for raddr.
zt_ep_recv_conn_req_noscan(s, e, raddr, f, rnd, ub) ==
    LET x == s.ep[e]
        i == x.ze_creq_head % zt_listenq
        s1 == [s EXCEPT !.ep[e].ze_creqs =
                            nni_idhash_put(@, i,
                                [cr_proto |-> f.arg[1], cr_raddr |-> raddr,
                                 cr_expire |-> s.now + zt_listen_expire]),
                        !.ep[e].ze_creq_head = @ + 1,
                        !.ep[e].ze_queued = @ + 1,
                        !.cap = @ \/ x.ze_queued >= MaxHeadAdv]
    IN  IF x.ze_mode # "LISTEN"
        THEN zt_send_err(s, raddr, x.ze_laddr, zt_err_proto, 23)
        ELSE IF f.len # zt_size_conn_req
        THEN zt_send_err(s, raddr, x.ze_laddr, zt_err_proto, 18)
        ELSE IF nni_idhash_find(s.peers, raddr)
        THEN zt_pipe_send_conn_ack(s, s.peers[raddr])
        ELSE IF BacklogFull(x) THEN s
        ELSE zt_ep_doaccept(s1, e, rnd, ub)

\* zt_ep_recv_conn_req
zt_ep_recv_conn_req(s, e, raddr, f, rnd, ub) ==
    LET x == s.ep[e]
        i == x.ze_creq_head % zt_listenq
        s1 == [s EXCEPT !.ep[e].ze_creqs =
                            nni_idhash_put(@, i,
                                [cr_proto |-> f.arg[1], cr_raddr |-> raddr,
                                 cr_expire |-> s.now + zt_listen_expire]),
                        !.ep[e].ze_creq_head = @ + 1,
                        !.ep[e].ze_queued = @ + 1,
                        !.cap = @ \/ x.ze_queued >= MaxHeadAdv]
    IN  IF x.ze_mode # "LISTEN"
        THEN zt_send_err(s, raddr, x.ze_laddr, zt_err_proto, 23)
        ELSE IF f.len # zt_size_conn_req
        THEN zt_send_err(s, raddr, x.ze_laddr, zt_err_proto, 18)
        ELSE IF nni_idhash_find(s.peers, raddr)
        THEN zt_pipe_send_conn_ack(s, s.peers[raddr])
        ELSE IF InBacklog(x, raddr) THEN s
        ELSE IF BacklogFull(x) THEN s
        ELSE zt_ep_doaccept(s1, e, rnd, ub)

\* zt_ep_recv_conn_ack leaving the endpoint registered under the address
\* it gave to the pipe.
zt_ep_recv_conn_ack_attached(s, e, raddr, f, rnd, ub) ==
    LET x == s.ep[e]
        pi == zt_pipe_init(s, e, raddr, x.ze_laddr, rnd, ub)
        s1 == [pi.s EXCEPT !.pipe[pi.p].zp_peer = f.arg[1]]
    IN  IF x.ze_mode # "DIAL"
        THEN zt_send_err(s, raddr, x.ze_laddr, zt_err_proto, 23)
        ELSE IF f.len # zt_size_conn_ack
        THEN zt_send_err(s, raddr, x.ze_laddr, zt_err_proto, 18)
        ELSE IF x.ze_creq_try = 0 THEN s
        ELSE IF nni_idhash_find(s.peers, raddr) THEN s
        ELSE IF pi.s.cap \/ pi.s.crashed THEN pi.s
        ELSE IF pi.rv # NNG_OK THEN creq_finish(pi.s, e, pi.rv, NULL)
        ELSE creq_finish(s1, e, NNG_OK, pi.p)

\* zt_ep_recv_conn_ack without the test of the length of the frame.
zt_ep_recv_conn_ack_anylen(s, e, raddr, f, rnd, ub) ==
    LET x == s.ep[e]
        pi == zt_pipe_init(s, e, raddr, x.ze_laddr, rnd, ub)
        s1 == [pi.s EXCEPT !.pipe[pi.p].zp_peer = f.arg[1],
                           !.eps = nni_idhash_remove(@, x.ze_laddr),
                           !.ep[e].ze_laddr = 0]
    IN  IF x.ze_mode # "DIAL"
        THEN zt_send_err(s, raddr, x.ze_laddr, zt_err_proto, 23)
        ELSE IF x.ze_creq_try = 0 THEN s
        ELSE IF nni_idhash_find(s.peers, raddr) THEN s
        ELSE IF pi.s.cap \/ pi.s.crashed THEN pi.s
        ELSE IF pi.rv # NNG_OK THEN creq_finish(pi.s, e, pi.rv, NULL)
        ELSE creq_finish(s1, e, NNG_OK, pi.p)

\* zt_ep_recv_conn_ack
zt_ep_recv_conn_ack(s, e, raddr, f, rnd, ub) ==
    LET x == s.ep[e]
        pi == zt_pipe_init(s, e, raddr, x.ze_laddr, rnd, ub)
        s1 == [pi.s EXCEPT !.pipe[pi.p].zp_peer = f.arg[1],
                           !.eps = nni_idhash_remove(@, x.ze_laddr),
                           !.ep[e].ze_laddr = 0]
    IN  IF x.ze_mode # "DIAL"
        THEN zt_send_err(s, raddr, x.ze_laddr, zt_err_proto, 23)
        ELSE IF f.len # zt_size_conn_ack
        THEN zt_send_err(s, raddr, x.ze_laddr, zt_err_proto, 18)
        ELSE IF x.ze_creq_try = 0 THEN s
        ELSE IF nni_idhash_find(s.peers, raddr) THEN s
        ELSE IF pi.s.cap \/ pi.s.crashed THEN pi.s
        ELSE IF pi.rv # NNG_OK THEN creq_finish(pi.s, e, pi.rv, NULL)
        ELSE creq_finish(s1, e, NNG_OK, pi.p)

\* The switch with the results of NOTCONN and WRONGSP exchanged.
ErrCode_swapped(code) ==
    IF code = zt_err_refused THEN NNG_ECONNREFUSED
    ELSE IF code = zt_err_notconn THEN NNG_EPROTO
    ELSE IF code = zt_err_wrongsp THEN NNG_ECLOSED
    ELSE NNG_ETRANERR

\* The switch of zt_ep_recv_error over the code of the ERROR frame.
ErrCode(code) ==
    IF code = zt_err_refused THEN NNG_ECONNREFUSED
    ELSE IF code = zt_err_notconn THEN NNG_ECLOSED
    ELSE IF code = zt_err_wrongsp THEN NNG_EPROTO
    ELSE NNG_ETRANERR

\* zt_ep_recv_error
zt_ep_recv_error(s, e, raddr, f) ==
    LET x == s.ep[e]
    IN  IF x.ze_mode # "DIAL" THEN s
        ELSE IF f.len < zt_offset_err_msg THEN s
        ELSE IF x.ze_creq_try > 0
        THEN creq_finish([s EXCEPT !.ep[e].ze_creq_try = 0], e,
                         ErrCode(f.arg[1]), NULL)
        ELSE s

\* zt_ep_virtual_recv
zt_ep_virtual_recv(s, e, raddr, f, rnd, ub) ==
    IF f.op = zt_op_conn_req THEN zt_ep_recv_conn_req(s, e, raddr, f, rnd, ub)
    ELSE IF f.op = zt_op_conn_ack
    THEN zt_ep_recv_conn_ack(s, e, raddr, f, rnd, ub)
    ELSE IF f.op = zt_op_error THEN zt_ep_recv_error(s, e, raddr, f)
    ELSE zt_send_err(s, raddr, s.ep[e].ze_laddr, zt_err_proto, 13)

\* zt_virtual_recv answering an unknown address with NOTCONN whatever the
\* opcode.
zt_virtual_recv_notconn(s, f, rnd, ub) ==
    LET raddr == f.src
        laddr == f.dst
        p == s.pipes[laddr]
        learn == [s EXCEPT !.pipe[p].zp_raddr = raddr]
    IN  IF \/ f.ethertype # zt_ethertype
           \/ f.len < zt_size_headers
           \/ f.flags # 0
           \/ f.zero1 # 0
           \/ f.zero2 # 0
        THEN s
        ELSE IF f.version # zt_version THEN s
        ELSE IF nni_idhash_find(s.pipes, laddr)
        THEN IF s.pipe[p].zp_raddr = 0
             THEN zt_pipe_virtual_recv(learn, p, f)
             ELSE IF s.pipe[p].zp_raddr # raddr
             THEN zt_send_err(s, raddr, laddr, zt_err_notconn, 13)
             ELSE zt_pipe_virtual_recv(s, p, f)
        ELSE IF nni_idhash_find(s.eps, laddr)
        THEN zt_ep_virtual_recv(s, s.eps[laddr], raddr, f, rnd, ub)
        ELSE IF f.op \in {zt_op_conn_req, zt_op_data, zt_op_ping_req,
                          zt_op_conn_ack}
        THEN zt_send_err(s, raddr, laddr, zt_err_notconn, 13)
        ELSE s

\* zt_virtual_recv leaving a PING_REQ for an unknown address unanswered.
zt_virtual_recv_noping(s, f, rnd, ub) ==
    LET raddr == f.src
        laddr == f.dst
        p == s.pipes[laddr]
        learn == [s EXCEPT !.pipe[p].zp_raddr = raddr]
    IN  IF \/ f.ethertype # zt_ethertype
           \/ f.len < zt_size_headers
           \/ f.flags # 0
           \/ f.zero1 # 0
           \/ f.zero2 # 0
        THEN s
        ELSE IF f.version # zt_version THEN s
        ELSE IF nni_idhash_find(s.pipes, laddr)
        THEN IF s.pipe[p].zp_raddr = 0
             THEN zt_pipe_virtual_recv(learn, p, f)
             ELSE IF s.pipe[p].zp_raddr # raddr
             THEN zt_send_err(s, raddr, laddr, zt_err_notconn, 13)
             ELSE zt_pipe_virtual_recv(s, p, f)
        ELSE IF nni_idhash_find(s.eps, laddr)
        THEN zt_ep_virtual_recv(s, s.eps[laddr], raddr, f, rnd, ub)
        ELSE IF f.op = zt_op_conn_req
        THEN zt_send_err(s, raddr, laddr, zt_err_refused, 18)
        ELSE IF f.op \in {zt_op_data, zt_op_conn_ack}
        THEN zt_send_err(s, raddr, laddr, zt_err_notconn, 13)
        ELSE s

\* zt_virtual_recv handing a pipe the frames of any source.
zt_virtual_recv_anysrc(s, f, rnd, ub) ==
    LET raddr == f.src
        laddr == f.dst
        p == s.pipes[laddr]
        learn == [s EXCEPT !.pipe[p].zp_raddr = raddr]
    IN  IF \/ f.ethertype # zt_ethertype
           \/ f.len < zt_size_headers
           \/ f.flags # 0
           \/ f.zero1 # 0
           \/ f.zero2 # 0
        THEN s
        ELSE IF f.version # zt_version THEN s
        ELSE IF nni_idhash_find(s.pipes, laddr)
        THEN IF s.pipe[p].zp_raddr = 0
             THEN zt_pipe_virtual_recv(learn, p, f)
             ELSE zt_pipe_virtual_recv(s, p, f)
        ELSE IF nni_idhash_find(s.eps, laddr)
        THEN zt_ep_virtual_recv(s, s.eps[laddr], raddr, f, rnd, ub)
        ELSE IF f.op = zt_op_conn_req
        THEN zt_send_err(s, raddr, laddr, zt_err_refused, 18)
        ELSE IF f.op \in {zt_op_data, zt_op_ping_req, zt_op_conn_ack}
        THEN zt_send_err(s, raddr, laddr, zt_err_notconn, 13)
        ELSE s

\* zt_virtual_recv without the test of the version.
zt_virtual_recv_anyversion(s, f, rnd, ub) ==
    LET raddr == f.src
        laddr == f.dst
        p == s.pipes[laddr]
        learn == [s EXCEPT !.pipe[p].zp_raddr = raddr]
    IN  IF \/ f.ethertype # zt_ethertype
           \/ f.len < zt_size_headers
           \/ f.flags # 0
           \/ f.zero1 # 0
           \/ f.zero2 # 0
        THEN s
        ELSE IF nni_idhash_find(s.pipes, laddr)
        THEN IF s.pipe[p].zp_raddr = 0
             THEN zt_pipe_virtual_recv(learn, p, f)
             ELSE IF s.pipe[p].zp_raddr # raddr
             THEN zt_send_err(s, raddr, laddr, zt_err_notconn, 13)
             ELSE zt_pipe_virtual_recv(s, p, f)
        ELSE IF nni_idhash_find(s.eps, laddr)
        THEN zt_ep_virtual_recv(s, s.eps[laddr], raddr, f, rnd, ub)
        ELSE IF f.op = zt_op_conn_req
        THEN zt_send_err(s, raddr, laddr, zt_err_refused, 18)
        ELSE IF f.op \in {zt_op_data, zt_op_ping_req, zt_op_conn_ack}
        THEN zt_send_err(s, raddr, laddr, zt_err_notconn, 13)
        ELSE s

\* zt_virtual_recv: a frame arrives from the virtual network.
zt_virtual_recv(s, f, rnd, ub) ==
    LET raddr == f.src
        laddr == f.dst
        p == s.pipes[laddr]
        learn == [s EXCEPT !.pipe[p].zp_raddr = raddr]
    IN  IF \/ f.ethertype # zt_ethertype
           \/ f.len < zt_size_headers
           \/ f.flags # 0
           \/ f.zero1 # 0
           \/ f.zero2 # 0
        THEN s
        ELSE IF f.version # zt_version THEN s
        ELSE IF nni_idhash_find(s.pipes, laddr)
        THEN IF s.pipe[p].zp_raddr = 0
             THEN zt_pipe_virtual_recv(learn, p, f)
             ELSE IF s.pipe[p].zp_raddr # raddr
             THEN zt_send_err(s, raddr, laddr, zt_err_notconn, 13)
             ELSE zt_pipe_virtual_recv(s, p, f)
        ELSE IF nni_idhash_find(s.eps, laddr)
        THEN zt_ep_virtual_recv(s, s.eps[laddr], raddr, f, rnd, ub)
        ELSE IF f.op = zt_op_conn_req
        THEN zt_send_err(s, raddr, laddr, zt_err_refused, 18)
        ELSE IF f.op \in {zt_op_data, zt_op_ping_req, zt_op_conn_ack}
        THEN zt_send_err(s, raddr, laddr, zt_err_notconn, 13)
        ELSE s

\* zt_ep_connect
zt_ep_connect(s, e, aio) ==
    LET s1 == nni_aio_start(s, aio)
        b == zt_ep_bind_locked(s1, e)
        s2 == [b.s EXCEPT !.ep[e].ze_aios = Append(@, aio),
                          !.ep[e].ze_creq_try = 1,
                          !.ep[e].ze_reqs = 0,
                          !.ep[e].creq_st = "armed",
                          !.ep[e].creq_expire = s.now + zt_conn_interval,
                          !.ep[e].creq_rv = NNG_OK,
                          !.ep[e].creq_pipe = NULL]
    IN  IF b.rv # NNG_OK THEN nni_aio_finish_error(b.s, aio, b.rv)
        ELSE zt_ep_send_conn_req(s2, e)

\* Fail every waiting user aio of the endpoint with rv.
RECURSIVE fail_aios(_, _, _)
fail_aios(s, e, rv) ==
    IF s.ep[e].ze_aios = <<>> THEN s
    ELSE fail_aios(
             nni_aio_finish_error([s EXCEPT !.ep[e].ze_aios = Tail(@)],
                                  Head(s.ep[e].ze_aios), rv),
             e, rv)

\* zt_ep_conn_req_cb: the callback of ze_creq_aio, run with the result rv
\* the aio finished with.
zt_ep_conn_req_cb(s, e, rv) ==
    LET x == s.ep[e]
        p == x.creq_pipe
        idle == [s EXCEPT !.ep[e].creq_st = "idle"]
    IN  IF rv = NNG_OK
        THEN IF x.ze_aios = <<>> \/ p = NULL THEN idle
             ELSE nni_aio_finish_pipe(
                      [idle EXCEPT !.ep[e].ze_creq_try = 0,
                                   !.ep[e].ze_aios = Tail(@)],
                      Head(x.ze_aios), p)
        ELSE IF rv = NNG_ETIMEDOUT /\ x.ze_creq_try <= zt_conn_attempts
        THEN zt_ep_send_conn_req(
                 [s EXCEPT !.ep[e].ze_creq_try = @ + 1,
                           !.ep[e].creq_expire = s.now + zt_conn_interval,
                           !.ep[e].creq_st = "armed"],
                 e)
        ELSE fail_aios([idle EXCEPT !.ep[e].ze_creq_try = 0], e, rv)

CreqAio(e) == 10 * e + 3                    \* ze_creq_aio of endpoint e

\* zt_ep_conn_req_cancel: the cancel routine of ze_creq_aio.
zt_ep_conn_req_cancel(s, e, rv) ==
    creq_finish([access(s, "ze_creq_try") EXCEPT !.ep[e].ze_creq_try = 0],
                e, rv, NULL)

\* nni_aio_cancel on an aio: its cancel routine runs if the aio has been
\* started and has not finished.  aio = NULL stands for ze_aio, which
\* zt_ep_init sets to NULL and nothing assigns.
nni_aio_cancel(s, e, aio, rv) ==
    IF aio = NULL \/ s.ep[e].creq_st # "armed" THEN s
    ELSE zt_ep_conn_req_cancel(s, e, rv)

\* The list ze_aios without aio.
ListRemove(l, aio) == SelectSeq(l, LAMBDA a : a # aio)
ListActive(l, aio) == \E i \in DOMAIN l : l[i] = aio

\* zt_ep_cancel: the cancel routine of the accept and connect aios.
zt_ep_cancel(s, e, aio, rv) ==
    IF ListActive(s.ep[e].ze_aios, aio)
    THEN nni_aio_finish_error(
             [nni_aio_cancel(s, e, NULL, rv)
                 EXCEPT !.ep[e].ze_aios = ListRemove(@, aio)],
             aio, rv)
    ELSE s

\* zt_ep_close leaving the endpoint in the indexes of the node.
zt_ep_close_keep(s, e) ==
    [fail_aios(nni_aio_cancel(s, e, CreqAio(e), NNG_ECLOSED), e, NNG_ECLOSED)
        EXCEPT !.ep[e].ze_closed = TRUE]

\* zt_ep_close
zt_ep_close(s, e) ==
    LET s1 == fail_aios(
                  nni_mtx_lock(nni_aio_cancel(s, e, CreqAio(e), NNG_ECLOSED)),
                  e, NNG_ECLOSED)
        laddr == s.ep[e].ze_laddr
        ztn == s.ep[e].ze_ztn
    IN  nni_mtx_unlock(
            IF ztn = NoNode THEN [s1 EXCEPT !.ep[e].ze_closed = TRUE]
            ELSE [access(s1, "indexes") EXCEPT
                     !.nodes[ztn].zn_eplist = SelectSeq(@, LAMBDA x : x # e),
                     !.ports = nni_idhash_remove(@,
                                                 laddr % (zt_port_mask + 1)),
                     !.eps = nni_idhash_remove(@, laddr),
                     !.ep[e].ze_closed = TRUE])

\* zt_ep_init: the structure is allocated with the default home and looks
\* for its node; rv is the result of zt_node_create when a node has to be
\* made, and after a failure the structure is freed again.
zt_ep_init(s, e, rv) ==
    LET s1 == [s EXCEPT !.ep[e] = [NewEp(e) EXCEPT !.ze_ztn = NoNode]]
    IN  IF ~NodeListed(s1, DefaultHome) /\ rv # NNG_OK
        THEN [s1 EXCEPT !.ep[e].ze_alloc = FALSE]
        ELSE zt_node_find(s1, e)

\* zt_ep_setopt of the home option.
zt_ep_setopt(s, e, data, rv) ==
    LET s1 == [s EXCEPT !.ep[e].ze_home = data]
    IN  IF ~NodeListed(s1, data) /\ rv # NNG_OK
        THEN [s1 EXCEPT !.ep[e].ze_ztn = NoNode]
        ELSE zt_node_find(s1, e)

\* zt_ep_fini
zt_ep_fini(s, e) == [s EXCEPT !.ep[e].ze_alloc = FALSE]

\* zt_tran_fini: every node of the list is taken off it, marked closed and
\* destroyed.
zt_tran_fini(s) ==
    [s EXCEPT !.nodes = [h \in DOMAIN s.nodes |->
                            IF s.nodes[h].listed
                            THEN [s.nodes[h] EXCEPT !.listed = FALSE,
                                                    !.zn_closed = TRUE,
                                                    !.destroyed = TRUE]
                            ELSE s.nodes[h]]]

----------------------------------------------------------------------------
(* The environment: the aios the user passes in, the frames remote nodes   *)
(* send, the messages the user sends.                                      *)

AcceptAios(e) == {10 * e + 2}               \* aios of accept calls on e
ConnAio(e) == 10 * e + 1                    \* aio of the connect call on e
RdAio(p) == 100 + p                         \* aio of reads on pipe p
SdAio(p) == 200 + p                         \* aio of sends on pipe p

EnvSrc == Addr(RemoteNode, 7)               \* address of a remote endpoint
EnvProto == 16                              \* its SP protocol

ConnReqFrame(dst, src) ==
    Frame(zt_op_conn_req, dst, src, <<EnvProto>>, <<>>, zt_size_conn_req)
ConnAckFrame(dst, src) ==
    Frame(zt_op_conn_ack, dst, src, <<EnvProto>>, <<>>, zt_size_conn_ack)
DiscReqFrame(dst, src) ==
    Frame(zt_op_disc_req, dst, src, <<>>, <<>>, zt_size_disc_req)

\* Frames the remote endpoint sends to the endpoints registered here.
EnvFrames ==
    UNION {{ConnReqFrame(d, EnvSrc), ConnAckFrame(d, EnvSrc)} :
           d \in DOMAIN zn_eps}

\* Gather lists the user sends: an empty body, one byte, a full fragment of
\* 12 bytes, and 13 bytes (one more than a fragment holds).
Bytes(n) == [i \in 1..n |-> i]
SendInputs == {<<Bytes(0)>>, <<Bytes(1)>>, <<Bytes(12)>>, <<Bytes(13)>>}
FragNos == {0, 7}                           \* garbage a local may hold

----------------------------------------------------------------------------
(* The actions of the model.                                               *)

Tick(T) ==
    /\ ~crashed
    /\ \E t \in T :
          /\ t > now
          /\ Commit([Enter(St, <<"tick">>) EXCEPT !.now = t])

Bind(e) ==
    /\ ~crashed
    /\ ep[e].ze_mode = "LISTEN"
    /\ ~ep[e].ze_closed
    /\ Commit(zt_ep_bind(Enter(St, <<"bind", e>>), e))

Accept(e) ==
    /\ ~crashed
    /\ ep[e].ze_mode = "LISTEN"
    /\ ~ep[e].ze_closed
    /\ \E a \in DOMAIN zn_eps : zn_eps[a] = e
    /\ AcceptAios(e) \ aio_out # {}
    /\ \E rnd \in RandIds, ub \in UbOutcomes :
          Commit(zt_ep_accept(Enter(St, <<"accept", e>>), e,
                              MinOf(AcceptAios(e) \ aio_out), rnd, ub))

Connect(e) ==
    /\ ~crashed
    /\ ep[e].ze_mode = "DIAL"
    /\ ~ep[e].ze_closed
    /\ ConnAio(e) \notin aio_out
    /\ Commit(zt_ep_connect(Enter(St, <<"connect", e>>), e, ConnAio(e)))

ConnReqCb(e) ==
    /\ ~crashed
    /\ ep[e].creq_st = "done"
    /\ Commit(zt_ep_conn_req_cb(Enter(St, <<"conn_req_cb", e>>), e,
                                ep[e].creq_rv))

Recv(s, f) ==
    \E rnd \in RandIds, ub \in UbOutcomes :
        Commit(zt_virtual_recv(Enter(s, <<"virtual_recv", f>>), f, rnd, ub))

Deliver ==
    /\ ~crashed
    /\ \E f \in net : Recv([St EXCEPT !.net = @ \ {f}], f)

Inject(F) ==
    /\ ~crashed
    /\ \E f \in F : Recv(St, f)

PipeRecv(p) ==
    /\ ~crashed
    /\ pipe[p].zp_user
    /\ RdAio(p) \notin aio_out
    /\ Commit(zt_pipe_recv(Enter(St, <<"pipe_recv", p>>), p, RdAio(p)))

PipeSend(p) ==
    /\ ~crashed
    /\ pipe[p].zp_user
    /\ \E iov \in SendInputs, fragno0 \in FragNos, dbg \in BOOLEAN :
          Commit(zt_pipe_send(Enter(St, <<"pipe_send", p, iov>>), p,
                              SdAio(p), iov, fragno0, dbg))

PipeClose(p) ==
    /\ ~crashed
    /\ pipe[p].zp_user
    /\ ~pipe[p].zp_uclose
    /\ Commit(zt_pipe_close(
                  [Enter(St, <<"pipe_close", p>>)
                      EXCEPT !.pipe[p].zp_uclose = TRUE], p))

PipeFini(p) ==
    /\ ~crashed
    /\ pipe[p].zp_user
    /\ pipe[p].zp_uclose
    /\ \E ub \in UbOutcomes :
          Commit(zt_pipe_fini(Enter(St, <<"pipe_fini", p>>), p, ub))

\* The timeout of ze_creq_aio expires: the aio finishes with NNG_ETIMEDOUT
\* and its callback runs.
TimerFire(e) ==
    /\ ~crashed
    /\ ep[e].creq_st = "armed"
    /\ now >= ep[e].creq_expire
    /\ Commit(zt_ep_conn_req_cb(Enter(St, <<"timer", e>>), e, NNG_ETIMEDOUT))

\* The user cancels the accept or connect aio a of endpoint e.
EpCancel(e, a) ==
    /\ ~crashed
    /\ ~ep[e].ze_closed
    /\ Commit(zt_ep_cancel(Enter(St, <<"ep_cancel", e, a>>), e, a,
                            NNG_ECANCELED))

EpClose(e) ==
    /\ ~crashed
    /\ ep[e].ze_alloc
    /\ ~ep[e].ze_closed
    /\ Commit(zt_ep_close(Enter(St, <<"ep_close", e>>), e))

RdAio2(p) == 300 + p                        \* a second read aio on pipe p

\* A read posted with a second aio, whatever read is pending.
PipeRecv2(p) ==
    /\ ~crashed
    /\ pipe[p].zp_user
    /\ RdAio2(p) \notin aio_out
    /\ Commit(zt_pipe_recv(Enter(St, <<"pipe_recv", p>>), p, RdAio2(p)))

\* The user cancels the read aio a, which was started on pipe p and has
\* not finished.
PipeCancelRecv(p, a) ==
    /\ ~crashed
    /\ pipe[p].zp_user
    /\ a \in aio_out
    /\ \E ub \in UbOutcomes :
          Commit(zt_pipe_cancel_recv(Enter(St, <<"cancel_recv", p, a>>), p,
                                     a, NNG_ECANCELED, ub))

\* The state after construction: nothing bound, no pipe, empty indexes.
Built ==
    [now |-> 0, ports |-> IdEmpty, dynval |-> SeedPort, eps |-> IdEmpty,
     pipes |-> IdEmpty, peers |-> IdEmpty,
     ep |-> [e \in EpIds |-> NewEp(e)],
     pipe |-> [p \in PipeIds |-> NoPipe],
     net |-> {}, aio_out |-> {}, crashed |-> FALSE,
     rx_log |-> <<>>, tx_log |-> <<>>, ev |-> NoEv,
     nodes |-> [h \in {DefaultHome} |->
                   [NewNode EXCEPT !.zn_eplist = [e \in EpIds |-> e]]],
     cap |-> FALSE]

\* The behaviour starts in state s.
Starts(s) ==
    /\ now = s.now
    /\ zn_ports = s.ports
    /\ zn_dynval = s.dynval
    /\ zn_eps = s.eps
    /\ zn_pipes = s.pipes
    /\ zn_peers = s.peers
    /\ ep = s.ep
    /\ pipe = s.pipe
    /\ net = s.net
    /\ aio_out = s.aio_out
    /\ crashed = s.crashed
    /\ rx_log = s.rx_log
    /\ tx_log = s.tx_log
    /\ ev = NoEv
    /\ zt_nodes = s.nodes

----------------------------------------------------------------------------
(* Connection management: the listener, the first dialer dialling it, and  *)
(* a remote node sending connection frames to the endpoints.               *)

Init == Starts(Built)

Next ==
    \/ Deliver
    \/ Inject(EnvFrames)
    \/ \E e \in EpIds : Bind(e)
    \/ \E e \in EpIds : Accept(e)
    \/ Connect(2)
    \/ \E e \in EpIds : ConnReqCb(e)
    \/ \E p \in PipeIds : PipeClose(p)
    \/ \E p \in PipeIds : PipeFini(p)

Spec == Init /\ [][Next]_vars

----------------------------------------------------------------------------
(* Two dialers dialling the listener at once.                              *)

NextDial ==
    \/ Deliver
    \/ \E e \in EpIds : Bind(e)
    \/ \E e \in EpIds : Accept(e)
    \/ \E e \in EpIds : Connect(e)
    \/ \E e \in EpIds : ConnReqCb(e)

SpecDial == Init /\ [][NextDial]_vars

\* The pipes created and not finalized.
OpenPipes == {p \in PipeIds : pipe[p].zp_st = "open"}

PortsOf(e) ==
    {AddrPort(pipe[p].zp_laddr) : p \in {q \in OpenPipes : pipe[q].zp_ep = e}}

\* Both dialers have their pipe and the listener has a pipe for each.
BothConnected ==
    /\ \A e \in Dialers :
          /\ ConnAio(e) \notin aio_out
          /\ \E p \in OpenPipes : pipe[p].zp_ep = e /\ pipe[p].zp_user
    /\ \A e \in Dialers : \E p \in OpenPipes :
          /\ pipe[p].zp_ep = 1
          /\ pipe[p].zp_user
          /\ \E q \in OpenPipes :
                pipe[q].zp_ep = e /\ pipe[q].zp_laddr = pipe[p].zp_raddr

\* C4 (concurrent dialers): the open pipes have pairwise distinct local
\* ports, none of them the port of the listener; so when both dialers are
\* connected, the two dialer-side pipes differ in their local ports and so
\* do the two listener-side pipes, which also differ from the listener.
C4_DistinctPorts ==
    /\ \A p, q \in OpenPipes :
          p # q => AddrPort(pipe[p].zp_laddr) # AddrPort(pipe[q].zp_laddr)
    /\ \A p \in OpenPipes : AddrPort(pipe[p].zp_laddr) # ListenPort
    /\ BothConnected =>
          /\ Cardinality(PortsOf(1)) = 2
          /\ Cardinality(PortsOf(2) \cup PortsOf(3)) = 2

\* Both connects were pending at once and both have completed.
C4_Witness ==
    /\ BothConnected
    /\ ep[1].ze_queued = 2
    /\ ep[1].ze_creq_tail = 2

----------------------------------------------------------------------------
(* The data path: the listener accepts the first dialer over the loopback, *)
(* the user sends and reads on the pipes, the overlay delivers, the clock  *)
(* advances.                                                               *)

NextData ==
    \/ Deliver
    \/ Tick(StaleInstants)
    \/ \E e \in EpIds : Bind(e)
    \/ \E e \in EpIds : Accept(e)
    \/ Connect(2)
    \/ \E e \in EpIds : ConnReqCb(e)
    \/ \E p \in PipeIds : PipeSend(p)
    \/ \E p \in PipeIds : PipeRecv(p)

SpecData == Init /\ [][NextData]_vars

\* The largest body zt_pipe_send puts in one frame on pipe p.
FragSz(p) == pipe[p].zp_mtu - zt_offset_data_data

\* C1 (round trip): once a send of a body B of one fragment has completed
\* on a pipe of an established pair, the overlay has lost nothing and has
\* delivered everything, no slot can have gone stale and a read is posted
\* on the peer pipe, that read has completed with a message equal to B.
C1_RoundTrip ==
    \A k \in DOMAIN tx_log :
        LET t == tx_log[k]
        IN  /\ t.peer # NULL
            /\ ~t.lost
            /\ net = {}
            /\ ~crashed
            /\ now <= zt_recv_stale
            /\ Len(t.msg) <= FragSz(t.pipe)
            /\ Len(t.msg) <= pipe[t.peer].zp_rcvmax
            /\ RdAio(t.peer) \in aio_out \/ rx_log # <<>>
            => \E j \in DOMAIN rx_log :
                   rx_log[j].pipe = t.peer /\ rx_log[j].msg = t.msg

----------------------------------------------------------------------------
(* The listener and its backlog: connection requests of remote dialers     *)
(* arrive, the user accepts, the clock advances.  The behaviour starts     *)
(* with the listener bound and its backlog empty or one short of full,     *)
(* the requests of the remote dialers 1..n having arrived at time 0.       *)

ListenAddr == Addr(zn_self, ListenPort)
RemoteDialer(n) == Addr(RemoteNode, n)

\* What zt_ep_recv_conn_req has recorded of the requests of the remote
\* dialers 1..n, no accept waiting: entry i - 1 for dialer i.
Backlogged(n) ==
    [zt_ep_bind(Built, 1)
        EXCEPT !.ep[1].ze_creqs =
                   [i \in 0..(n - 1) |->
                       [cr_proto |-> EnvProto,
                        cr_raddr |-> RemoteDialer(i + 1),
                        cr_expire |-> zt_listen_expire]],
               !.ep[1].ze_creq_head = n]

Prefills == {0, zt_listenq - 1}
ListenSrcs == {RemoteDialer(1), RemoteDialer(200), RemoteDialer(201)}
ListenFrames == {ConnReqFrame(ListenAddr, r) : r \in ListenSrcs}

InitListen == \E n \in Prefills : Starts(Backlogged(n))

NextListen ==
    \/ Tick(ListenInstants)
    \/ \E e \in Listeners : Accept(e)
    \/ Inject(ListenFrames)

SpecListen == InitListen /\ [][NextListen]_vars

\* The pipes that exist with remote address r.
PipesTo(r) == {p \in PipeIds : pipe[p].zp_st # "none" /\ pipe[p].zp_raddr = r}

\* The last handler was zt_virtual_recv of a well-formed CONN_REQ for e.
ConnReqArrived(e) ==
    /\ ev.op[1] = "virtual_recv"
    /\ ev.op[2].op = zt_op_conn_req
    /\ ev.op[2].len = zt_size_conn_req
    /\ ev.op[2].dst = ep[e].ze_laddr

\* The CONN_ACK frames among the frames fs, by destination.
AcksTo(fs) == {fs[i].dst : i \in {j \in DOMAIN fs : fs[j].op = zt_op_conn_ack}}

\* C2 (idempotent connect): whatever CONN_REQ frames arrive and whatever
\* accepts are made, at most one pipe exists per remote address; and a
\* CONN_REQ from an address registered in the peer index creates no pipe
\* and adds no backlog entry (it is answered by a CONN_ACK alone).
C2_Idempotent ==
    /\ [](\A r \in ListenSrcs : Cardinality(PipesTo(r)) <= 1)
    /\ [][ConnReqArrived(1)' /\ ev'.op[2].src \in DOMAIN zn_peers
            => /\ pipe' = pipe
               /\ zn_pipes' = zn_pipes
               /\ zn_peers' = zn_peers
               /\ ep' = ep
               /\ AcksTo(ev'.sent) = {ev'.op[2].src}]_vars

\* A CONN_REQ of a connected dialer has arrived again and was answered.
C2_Witness ==
    /\ ConnReqArrived(1)
    /\ ev.op[2].src \in DOMAIN zn_peers
    /\ ev.fin = <<>>
    /\ AcksTo(ev.sent) = {ev.op[2].src}
    /\ Cardinality(PipesTo(ev.op[2].src)) = 1

\* The backlog of every listener holds at most zt_listenq entries.
BacklogBounded ==
    \A e \in Listeners : ep[e].ze_creq_head - ep[e].ze_creq_tail <= zt_listenq

\* A step in which a CONN_REQ reached listener 1 with its backlog full
\* left the backlog alone and sent nothing.
FullDrop ==
    /\ ep' = ep
    /\ pipe' = pipe
    /\ ev'.sent = <<>>
    /\ ev'.fin = <<>>

\* C5 as stated (backlog bound and silent drop): the backlog never holds
\* more than 128 entries, and every valid CONN_REQ that arrives while it is
\* full is dropped with the backlog unchanged and no frame sent in reply.
C5_AsStated ==
    /\ []BacklogBounded
    /\ [][ConnReqArrived(1)' /\ BacklogFull(ep[1]) => FullDrop]_vars

\* C5 (backlog bound and silent drop), amended: the backlog never holds
\* more than 128 entries, and a valid CONN_REQ that arrives while it is
\* full from an address with no pipe in the peer index is dropped with the
\* backlog unchanged and no frame sent in reply.
C5_BacklogBound ==
    /\ []BacklogBounded
    /\ [][/\ ConnReqArrived(1)'
          /\ BacklogFull(ep[1])
          /\ ev'.op[2].src \notin DOMAIN zn_peers
          => FullDrop]_vars

\* The backlog is full and the CONN_REQ of a new dialer was just dropped.
C5_Witness ==
    /\ ConnReqArrived(1)
    /\ BacklogFull(ep[1])
    /\ ev.op[2].src \notin DOMAIN zn_peers
    /\ ~InBacklog(ep[1], ev.op[2].src)
    /\ ev.sent = <<>>

\* The queued entries of listener x, and those of them expired at tnow.
Queued(x) == x.ze_creq_tail..(x.ze_creq_head - 1)
Stale(x, tnow) ==
    {i \in Queued(x) : x.ze_creqs[i % zt_listenq].cr_expire < tnow}

\* C6 (expired entries are never accepted): in every step, no pipe is
\* created for an entry that has expired and no CONN_ACK is sent for it;
\* every accept aio that completes is paired with an entry that has not
\* expired; and once an accept has drained the backlog, no expired entry
\* is left at its tail.
C6_ExpiredNeverPaired ==
    [][LET x == ep[1]
           y == ep'[1]
           gone == {x.ze_creqs[i % zt_listenq].cr_raddr : i \in Stale(x, now')}
           fresh == {y.ze_creqs[i % zt_listenq].cr_raddr :
                        i \in (x.ze_creq_tail..(y.ze_creq_head - 1))
                                 \ Stale(y, now')}
       IN  /\ \A p \in PipeIds :
                 pipe[p].zp_st = "none" /\ pipe'[p].zp_st # "none"
                     => pipe'[p].zp_raddr \notin gone
           /\ AcksTo(ev'.sent) \cap gone = {}
           /\ \A k \in DOMAIN ev'.fin :
                 /\ ev'.fin[k].rv = NNG_OK
                 /\ pipe'[ev'.fin[k].pipe].zp_raddr \in fresh
           /\ ev'.op[1] = "accept" /\ ~crashed'
                 => y.ze_creq_tail \notin Stale(y, now')]_vars

\* An accept made after the 127 entries queued at time 0 have expired
\* discarded them all and was paired with the entry queued at time 1.
C6_Witness ==
    /\ ev.op = <<"accept", 1>>
    /\ now = zt_listen_expire + 1
    /\ ep[1].ze_creq_tail = zt_listenq
    /\ Len(ev.fin) = 1
    /\ pipe[ev.fin[1].pipe].zp_raddr = RemoteDialer(200)

----------------------------------------------------------------------------
(* Reassembly: a pipe the listener accepted for a remote dialer, and       *)
(* zt_pipe_recv_data applied to the DATA frames of that dialer.  The       *)
(* program has no call of zt_pipe_recv_data (zt_pipe_virtual_recv          *)
(* dispatches zt_op_disc_req only), so the action applies it directly.     *)

\* physicalMtu and recv-max-size of the listener: fragments of 2 bytes and
\* a bitmap of 1 byte, fragments of 1 byte and a bitmap of 3 bytes.
ReasmCfgs == {[mtu |-> 22, rcvmax |-> 3], [mtu |-> 21, rcvmax |-> 17]}
\* The messages the peer sends: their message ids and lengths.
ReasmMsgs == {[id |-> 5, n |-> 1], [id |-> 6, n |-> 3], [id |-> 7, n |-> 4]}
ReasmPipe == 1                          \* the pipe accepted

\* bind and accept on the listener configured by c, then a CONN_REQ whose
\* source address is src.
AcceptedFrom(c, src) ==
    LET b == [Built EXCEPT !.ep[1].ze_phymtu = c.mtu,
                           !.ep[1].ze_rcvmax = c.rcvmax]
        rnd == CHOOSE r \in RandIds : TRUE
    IN  zt_virtual_recv(
            zt_ep_accept(zt_ep_bind(b, 1), 1, MinOf(AcceptAios(1)), rnd,
                         "slack"),
            ConnReqFrame(ListenAddr, src), rnd, "slack")

\* bind and accept on the listener configured by c, then the CONN_REQ of
\* the remote dialer.
Accepted(c) == AcceptedFrom(c, RemoteDialer(1))

\* The fragments a message of n bytes takes.
NFrags(n, fragsz) == (n + (fragsz - 1)) \div fragsz

\* Fragment k of the message of n bytes with id id, as the peer of pipe p
\* sends it with fragments of fragsz bytes.
DataFrame(p, id, n, fragsz, k) ==
    LET nfrags == NFrags(n, fragsz)
        body == SubSeq(Bytes(n), k * fragsz + 1, Min(n, (k + 1) * fragsz))
    IN  Frame(zt_op_data, pipe[p].zp_laddr, pipe[p].zp_raddr,
              <<id, fragsz, k, nfrags>>, body,
              zt_offset_data_data + Len(body))

\* Fragment 0 of the message with id 6 as a peer sends it that has changed
\* the fragment size to one byte (and with it the fragment count).
AlteredFrames(p) == {DataFrame(p, 6, 3, 1, 0)}

DataFrames(p) ==
    UNION {{DataFrame(p, m.id, m.n, FragSz(p), k) :
               k \in 0..(NFrags(m.n, FragSz(p)) - 1)} : m \in ReasmMsgs}
        \cup AlteredFrames(p)

\* zt_pipe_recv_data for a DATA frame of the peer of pipe p.
RecvData(p) ==
    /\ ~crashed
    /\ pipe[p].zp_st = "open"
    /\ Len(pipe[p].zp_fed) < MaxFed
    /\ \E f \in DataFrames(p), ub \in UbOutcomes :
          Commit(zt_pipe_recv_data(
                     [Enter(St, <<"recv_data", f>>)
                         EXCEPT !.pipe[p].zp_fed =
                                    Append(@, <<f.arg[1], f.arg[3]>>)],
                     p, f, ub))

InitReasm == \E c \in ReasmCfgs : Starts(Accepted(c))

NextReasm ==
    \/ Tick(StaleInstants)
    \/ PipeRecv(ReasmPipe)
    \/ RecvData(ReasmPipe)

SpecReasm == InitReasm /\ [][NextReasm]_vars

Slots == 0..(zt_recvq - 1)
Slot(i) == pipe[ReasmPipe].zp_recvq[i]

\* C7: a slot is marked ready only when every fragment of its message has
\* been received, it holds the message, and the message is no longer than
\* recv-max; no message with a fragment still missing is handed to a read.
C7_ReadyComplete ==
    ~crashed =>
        /\ \A i \in Slots :
              Slot(i).fl_ready =>
                  /\ Slot(i).fl_got = 0..(Slot(i).fl_nfrags - 1)
                  /\ Slot(i).fl_msg # NoMsg
                  /\ Len(Slot(i).fl_msg) <= pipe[ReasmPipe].zp_rcvmax
        /\ \A j \in DOMAIN rx_log : rx_log[j].whole

\* The frames handed to the reassembly so far are the fragments of the
\* message of n bytes with id id, each once, in some order.
FedWhole(id, n) ==
    LET fed == pipe[ReasmPipe].zp_fed
        nf == NFrags(n, FragSz(ReasmPipe))
    IN  /\ Len(fed) = nf
        /\ {fed[i] : i \in DOMAIN fed} = {<<id, k>> : k \in 0..(nf - 1)}

ReadPosted == RdAio(ReasmPipe) \in aio_out \/ rx_log # <<>>

\* C8: the fragments of a message that fits recv-max, delivered in any
\* order within the staleness window, yield the concatenation of the
\* fragments in index order, and a read returns that message exactly once.
C8_Reorder ==
    \A m \in ReasmMsgs :
        /\ FedWhole(m.id, m.n)
        /\ m.n <= pipe[ReasmPipe].zp_rcvmax
        /\ ReadPosted
        /\ now <= zt_recv_stale
        /\ ~crashed
        => /\ Len(rx_log) = 1
           /\ rx_log[1].msg = Bytes(m.n)

\* The slot of the message of frame f, and whether it has stored the
\* fragment f carries.
SlotsOf(f) == {i \in Slots : Slot(i).fl_msgid = f.arg[1]}
Stored(f) == \E i \in SlotsOf(f) : f.arg[3] \in Slot(i).fl_got

\* C9: a fragment delivered a second time is dropped and the slot is left
\* as it was; a fragment received for the first time is stored (so that
\* the slot has it, or the message it completed went to the read or was
\* discarded as longer than recv-max).
C9_Duplicates ==
    [][LET f == ev'.op[2]
           q == pipe'[ReasmPipe].zp_recvq
       IN  ev'.op[1] = "recv_data" /\ now <= zt_recv_stale /\ ~crashed'
           => /\ Stored(f) => q = pipe[ReasmPipe].zp_recvq
              /\ /\ ~Stored(f)
                 /\ \A i \in SlotsOf(f) : Slot(i).fl_nfrags = f.arg[4]
                 /\ f.arg[4] * f.arg[2]
                        < pipe[ReasmPipe].zp_rcvmax + f.arg[2]
                 => \/ \E i \in Slots :
                          /\ q[i].fl_msgid = f.arg[1]
                          /\ f.arg[3] \in q[i].fl_got
                    \/ Len(rx_log') > Len(rx_log)
                    \/ (f.arg[4] - 1) * f.arg[2] + Len(f.body)
                           > pipe[ReasmPipe].zp_rcvmax]_vars

MsgSizeErrors(fs) ==
    {k \in DOMAIN fs :
        fs[k].op = zt_op_error /\ fs[k].arg = <<zt_err_msgsize>>}

\* C10: a message of exactly recv-max bytes is delivered to a read; a
\* message longer than recv-max is never delivered to a read, and when its
\* last fragment arrives the slot is reset and an ERROR frame with the
\* MSGSIZE code is sent.
C10_SizeLimit ==
    /\ [](\A m \in ReasmMsgs :
             /\ FedWhole(m.id, m.n)
             /\ m.n = pipe[ReasmPipe].zp_rcvmax
             /\ ReadPosted /\ now <= zt_recv_stale /\ ~crashed
             => \E j \in DOMAIN rx_log : rx_log[j].msg = Bytes(m.n))
    /\ [](\A j \in DOMAIN rx_log :
             Len(rx_log[j].msg) <= pipe[ReasmPipe].zp_rcvmax)
    /\ [][LET f == ev'.op[2]
          IN  /\ ev'.op[1] = "recv_data" /\ ~crashed'
              /\ f.arg[3] = f.arg[4] - 1
              /\ (f.arg[4] - 1) * f.arg[2] + Len(f.body)
                     > pipe[ReasmPipe].zp_rcvmax
              => /\ MsgSizeErrors(ev'.sent) # {}
                 /\ \A i \in Slots :
                       pipe'[ReasmPipe].zp_recvq[i].fl_msgid # f.arg[1]]_vars

----------------------------------------------------------------------------
(* Dialling: the retries of a connect, the replies it gets and its         *)
(* cancellation.  The two dialers dial the address of the listener, which  *)
(* may or may not be bound; a remote node sends CONN_ACK and ERROR frames  *)
(* to the endpoints.                                                       *)

ErrCodes ==
    {zt_err_refused, zt_err_notconn, zt_err_wrongsp, zt_err_proto,
     zt_err_unknown}
ErrFrame(dst, src, code) ==
    Frame(zt_op_error, dst, src, <<code>>, <<>>, zt_offset_err_msg + 5)

ConnFrames ==
    UNION {{ConnAckFrame(d, EnvSrc)}
               \cup {ErrFrame(d, EnvSrc, c) : c \in ErrCodes} :
           d \in DOMAIN zn_eps}

\* Replies: both dialers, the listener bound or not, frames delivered.
\* Dialer 2, the listener and the replies of the remote node.
NextReply ==
    \/ Deliver
    \/ Inject(ConnFrames)
    \/ \E e \in Listeners : Bind(e)
    \/ Connect(2)
    \/ ConnReqCb(2)

SpecReply == Init /\ [][NextReply]_vars

\* Both dialers and the replies of the remote node.
NextAck ==
    \/ Inject(ConnFrames)
    \/ \E e \in Dialers : Connect(e)
    \/ \E e \in Dialers : ConnReqCb(e)

SpecAck == Init /\ [][NextAck]_vars

ConnInstants == {k * zt_conn_interval : k \in 1..(zt_conn_attempts + 2)}

\* Frames the remote node sends to a dialer.
RetryFrames == {ConnAckFrame(d, EnvSrc) : d \in DOMAIN zn_eps}

\* Retries: the first dialer, its timer and the cancellation of its
\* connect; the frames it sends are not answered unless the remote node
\* sends a CONN_ACK.
NextRetry ==
    \/ Tick(ConnInstants)
    \/ Inject(RetryFrames)
    \/ Connect(2)
    \/ TimerFire(2)
    \/ ConnReqCb(2)
    \/ EpCancel(2, ConnAio(2))

SpecRetry == Init /\ [][NextRetry]_vars

\* C11: a connect sends zt_conn_attempts (12) CONN_REQ frames in all, one
\* at the connect and one at each expiry of the timer that retries; the
\* expiry that fails the user aio with NNG_ETIMEDOUT sends no frame, and
\* by then exactly zt_conn_attempts frames have been sent.
C11_Attempts ==
    /\ [](\A e \in Dialers : ep[e].ze_reqs <= zt_conn_attempts)
    /\ [][\A k \in DOMAIN ev'.fin :
             ev'.fin[k].rv = NNG_ETIMEDOUT
                 => /\ ev'.fin[k].aio = ConnAio(2)
                    /\ ev'.sent = <<>>
                    /\ ep'[2].ze_reqs = zt_conn_attempts]_vars

\* The frame handled by the step and the endpoint it is addressed to.
RecvStep == ev'.op[1] = "virtual_recv"
RecvFrame == ev'.op[2]
AtEp(f) == f.dst \notin DOMAIN zn_pipes /\ f.dst \in DOMAIN zn_eps
Finished(a, rv) ==
    \E k \in DOMAIN ev.fin :
        ev.fin[k].aio = a /\ ev.fin[k].rv = rv /\ ev.fin[k].live

\* C12: a CONN_REQ for an address with no pipe and no endpoint is answered
\* with one ERROR(REFUSED) to its sender; a dialer with a connect
\* outstanding that receives ERROR(REFUSED) finishes its connect-request
\* aio with NNG_ECONNREFUSED in that step (try becomes 0, so no retry
\* follows), and the callback of that aio fails the user connect aio with
\* NNG_ECONNREFUSED and sends nothing.
C12_Refused ==
    /\ [][RecvStep /\ RecvFrame.op = zt_op_conn_req
              /\ RecvFrame.len >= zt_size_headers
              /\ RecvFrame.dst \notin DOMAIN zn_pipes
              /\ RecvFrame.dst \notin DOMAIN zn_eps
            => /\ Len(ev'.sent) = 1
               /\ ev'.sent[1].op = zt_op_error
               /\ ev'.sent[1].arg = <<zt_err_refused>>
               /\ ev'.sent[1].dst = RecvFrame.src
               /\ ev'.sent[1].src = RecvFrame.dst
               /\ ev'.fin = <<>>]_vars
    /\ [][RecvStep /\ RecvFrame.op = zt_op_error
              /\ RecvFrame.arg = <<zt_err_refused>>
              /\ AtEp(RecvFrame)
              /\ ep[zn_eps[RecvFrame.dst]].ze_mode = "DIAL"
              /\ ep[zn_eps[RecvFrame.dst]].ze_creq_try > 0
            => /\ ep'[zn_eps[RecvFrame.dst]].ze_creq_try = 0
               /\ ep'[zn_eps[RecvFrame.dst]].creq_st = "done"
               /\ ep'[zn_eps[RecvFrame.dst]].creq_rv = NNG_ECONNREFUSED
               /\ ev'.sent = <<>>]_vars
    /\ [][\A e \in Dialers :
              /\ ev'.op = <<"conn_req_cb", e>>
              /\ ep[e].creq_rv = NNG_ECONNREFUSED
              => /\ ConnAio(e) \in aio_out
                 /\ ConnAio(e) \notin aio_out'
                 /\ ev'.fin = <<[aio |-> ConnAio(e),
                                 rv |-> NNG_ECONNREFUSED, pipe |-> NULL,
                                 msg |-> NoMsg, live |-> TRUE]>>
                 /\ ev'.sent = <<>>
                 /\ ep'[e].ze_reqs = ep[e].ze_reqs]_vars

\* The node refused the first CONN_REQ of dialer 2 (no listener bound), and
\* its ERROR(REFUSED) reached the dialer, whose connect-request aio finished
\* with NNG_ECONNREFUSED after that single frame.
C12_Witness ==
    /\ ev.op[1] = "virtual_recv"
    /\ ev.op[2].op = zt_op_error
    /\ ev.op[2].src = Addr(zn_self, ListenPort)
    /\ ep[2].creq_st = "done"
    /\ ep[2].creq_rv = NNG_ECONNREFUSED
    /\ ep[2].ze_creq_try = 0
    /\ ep[2].ze_reqs = 1
    /\ ConnAio(2) \in aio_out

\* The pipes the step creates.
Created == {p \in PipeIds : pipe[p].zp_st # "open" /\ pipe'[p].zp_st = "open"}

\* A well-formed CONN_ACK arrives at dialer e, which has a connect
\* outstanding (try > 0) or not (try = 0).
AckAt(e) ==
    /\ RecvStep
    /\ RecvFrame.op = zt_op_conn_ack
    /\ RecvFrame.len = zt_size_conn_ack
    /\ AtEp(RecvFrame)
    /\ zn_eps[RecvFrame.dst] = e

\* A step that leaves the program as it was: nothing sent, nothing finished.
NothingChanged ==
    /\ UNCHANGED <<now, zn_ports, zn_dynval, zn_eps, zn_pipes, zn_peers, ep,
                   pipe, aio_out, crashed, rx_log, tx_log>>
    /\ ev'.sent = <<>>
    /\ ev'.fin = <<>>

\* The pipe a CONN_ACK from RecvFrame.src makes for dialer e.
AckPipe(e, p) ==
    /\ Created = {p}
    /\ pipe'[p].zp_laddr = ep[e].ze_laddr
    /\ pipe'[p].zp_raddr = RecvFrame.src
    /\ pipe'[p].zp_peer = RecvFrame.arg[1]
    /\ zn_pipes'[ep[e].ze_laddr] = p
    /\ ~nni_idhash_find(zn_eps', ep[e].ze_laddr)
    /\ ep'[e].ze_laddr = 0
    /\ ep'[e].creq_st = "done"
    /\ ep'[e].creq_rv = NNG_OK
    /\ ep'[e].creq_pipe = p

\* The callback of the connect-request aio hands the pipe to the connect.
AckCallback ==
    \A e \in Dialers :
        /\ ev'.op = <<"conn_req_cb", e>>
        /\ ep[e].creq_rv = NNG_OK
        /\ ep[e].creq_pipe # NULL
        => /\ ConnAio(e) \in aio_out
           /\ ev'.fin = <<[aio |-> ConnAio(e), rv |-> NNG_OK,
                           pipe |-> ep[e].creq_pipe, msg |-> NoMsg,
                           live |-> TRUE]>>
           /\ ep'[e].ze_creq_try = 0

\* C13 (as stated): a well-formed CONN_ACK from any address A at a dialer
\* with try > 0 creates exactly one pipe (laddr of the endpoint, raddr A,
\* peer protocol of the ACK), detaches the endpoint from its laddr and
\* completes the connect with that pipe; with try = 0 it changes nothing.
C13_AsStated ==
    /\ [][\A e \in Dialers :
             AckAt(e) /\ ep[e].ze_creq_try > 0
                 => \E p \in PipeIds : AckPipe(e, p)]_vars
    /\ [][AckCallback]_vars
    /\ [][\A e \in Dialers :
             AckAt(e) /\ ep[e].ze_creq_try = 0 => NothingChanged]_vars

\* C13: a well-formed CONN_ACK at a dialer with try > 0, from an address A
\* that has no pipe in the peer index, creates exactly one pipe (laddr of
\* the endpoint, raddr A, peer protocol of the ACK), detaches the endpoint
\* from its laddr and finishes the connect-request aio with that pipe, which
\* the callback hands to the user connect aio; a CONN_ACK from an address
\* that already has a pipe, or one received while try = 0, creates no pipe
\* and changes no state.
C13_AckMakesPipe ==
    /\ [][\A e \in Dialers :
             /\ AckAt(e)
             /\ ep[e].ze_creq_try > 0
             /\ ~nni_idhash_find(zn_peers, RecvFrame.src)
             => \E p \in PipeIds : AckPipe(e, p)]_vars
    /\ [][AckCallback]_vars
    /\ [][\A e \in Dialers :
             /\ AckAt(e)
             /\ \/ ep[e].ze_creq_try = 0
                \/ nni_idhash_find(zn_peers, RecvFrame.src)
             => NothingChanged]_vars

\* Dialer 2 got its pipe from a CONN_ACK and its connect completed with it,
\* while dialer 3 is still connecting.
C13_Witness ==
    /\ ev.op = <<"conn_req_cb", 2>>
    /\ \E p \in PipeIds :
          /\ Finished(ConnAio(2), NNG_OK)
          /\ ev.fin[1].pipe = p
          /\ pipe[p].zp_st = "open"
          /\ pipe[p].zp_ep = 2
          /\ pipe[p].zp_raddr = EnvSrc
          /\ pipe[p].zp_peer = EnvProto
          /\ zn_pipes[pipe[p].zp_laddr] = p
    /\ ep[2].ze_laddr = 0
    /\ ep[3].ze_creq_try > 0

\* An ERROR frame arrives at endpoint e.
ErrorAt(e) ==
    /\ RecvStep
    /\ RecvFrame.op = zt_op_error
    /\ AtEp(RecvFrame)
    /\ zn_eps[RecvFrame.dst] = e

\* The failure of the connect-request aio that fails the user connect aio
\* in the callback.
CreqFails(e, rv) ==
    /\ ep'[e].creq_st = "done"
    /\ ep'[e].creq_rv = rv
    /\ ep'[e].creq_pipe = NULL
    /\ ep'[e].ze_creq_try = 0
    /\ ev'.sent = <<>>
    /\ Created = {}

\* C14: an ERROR frame at a dialer with try > 0 fails the connect with
\* NNG_ECONNREFUSED for code REFUSED, NNG_ECLOSED for NOTCONN, NNG_EPROTO
\* for WRONGSP and NNG_ETRANERR for any other code, and sets try to 0 (the
\* callback of the connect-request aio then fails the user aio with that
\* code); an ERROR frame at a dialer with try = 0 or at a listener changes
\* no state and completes no aio.
C14_ErrorCodes ==
    /\ [][\A e \in Dialers :
             ErrorAt(e) /\ ep[e].ze_creq_try > 0
                 => LET code == RecvFrame.arg[1]
                    IN  /\ code = zt_err_refused
                               => CreqFails(e, NNG_ECONNREFUSED)
                        /\ code = zt_err_notconn => CreqFails(e, NNG_ECLOSED)
                        /\ code = zt_err_wrongsp => CreqFails(e, NNG_EPROTO)
                        /\ code \notin {zt_err_refused, zt_err_notconn,
                                        zt_err_wrongsp}
                               => CreqFails(e, NNG_ETRANERR)]_vars
    /\ [][\A e \in Dialers :
             /\ ev'.op = <<"conn_req_cb", e>>
             /\ ep[e].creq_rv # NNG_OK
             => /\ ev'.fin = <<[aio |-> ConnAio(e), rv |-> ep[e].creq_rv,
                                pipe |-> NULL, msg |-> NoMsg,
                                live |-> TRUE]>>
                /\ ev'.sent = <<>>
                /\ ep'[e].ze_creq_try = 0]_vars
    /\ [][\A e \in EpIds :
             /\ ErrorAt(e)
             /\ e \in Listeners \/ ep[e].ze_creq_try = 0
             => NothingChanged]_vars

\* With the listener bound, the connect of dialer 2 failed with the result
\* of an ERROR frame whose code is outside the three the switch names.
C14_Witness ==
    /\ ev.op = <<"conn_req_cb", 2>>
    /\ Finished(ConnAio(2), NNG_ETRANERR)
    /\ ep[2].ze_reqs = 1
    /\ ep[2].ze_creq_try = 0
    /\ \E a \in DOMAIN zn_eps : zn_eps[a] \in Listeners

----------------------------------------------------------------------------
(* An established pipe: reads, sends, cancels and close by the user, and   *)
(* the DISC_REQ of the peer.                                               *)

ReadAios == {RdAio(ReasmPipe), RdAio2(ReasmPipe)}

\* The DISC_REQ of the peer of pipe p.
PeerDisc(p) == {DiscReqFrame(pipe[p].zp_laddr, pipe[p].zp_raddr)}

\* The only fragment of the one-byte message with id 5, sent by the peer.
PeerData(p) == {DataFrame(p, 5, 1, FragSz(p), 0)}

InitPipe == Starts(Accepted([mtu |-> PhyMtu, rcvmax |-> RcvMax]))

NextPipe ==
    \/ PipeRecv(ReasmPipe)
    \/ PipeRecv2(ReasmPipe)
    \/ PipeSend(ReasmPipe)
    \/ PipeClose(ReasmPipe)
    \/ \E a \in ReadAios : PipeCancelRecv(ReasmPipe, a)
    \/ Inject(PeerDisc(ReasmPipe) \cup PeerData(ReasmPipe))
    \/ Accept(1)
    \/ EpCancel(1, MinOf(AcceptAios(1)))

SpecPipe == InitPipe /\ [][NextPipe]_vars

Failed(a, rv) ==
    <<[aio |-> a, rv |-> rv, pipe |-> NULL, msg |-> NoMsg, live |-> TRUE]>>

\* C15: the close of a pipe sets its closed flag, fails the pending read (if
\* there is one) with NNG_ECLOSED and sends one DISC_REQ to the peer; from
\* then on the pipe stays closed with no read pending, and every send or
\* read posted on it fails with NNG_ECLOSED, emits no frame and is not
\* stored as the pending read.
C15_Close ==
    /\ [][ev'.op = <<"pipe_close", ReasmPipe>>
            => /\ pipe'[ReasmPipe].zp_closed
               /\ pipe'[ReasmPipe].zp_user_rxaio = NULL
               /\ ev'.fin = IF pipe[ReasmPipe].zp_user_rxaio = NULL THEN <<>>
                            ELSE Failed(pipe[ReasmPipe].zp_user_rxaio,
                                        NNG_ECLOSED)
               /\ ev'.sent = <<DiscReqFrame(pipe[ReasmPipe].zp_raddr,
                                            pipe[ReasmPipe].zp_laddr)>>]_vars
    /\ [](pipe[ReasmPipe].zp_uclose
              => /\ pipe[ReasmPipe].zp_closed
                 /\ pipe[ReasmPipe].zp_user_rxaio = NULL)
    /\ [][/\ pipe[ReasmPipe].zp_uclose
          /\ ev'.op[1] \in {"pipe_recv", "pipe_send"}
          => /\ \E a \in ReadAios \cup {SdAio(ReasmPipe)} :
                   ev'.fin = Failed(a, NNG_ECLOSED)
             /\ ev'.sent = <<>>
             /\ aio_out' = aio_out
             /\ UNCHANGED <<pipe, tx_log, rx_log, net>>]_vars

\* A message was sent, the pipe was closed, and a read posted after the
\* close has just failed.
C15_Witness ==
    /\ pipe[ReasmPipe].zp_uclose
    /\ ev.op = <<"pipe_recv", ReasmPipe>>
    /\ ev.fin = Failed(RdAio2(ReasmPipe), NNG_ECLOSED)
    /\ RdAio(ReasmPipe) \notin aio_out
    /\ tx_log # <<>>

\* C16: a DISC_REQ from the peer closes the pipe whether or not a read is
\* pending; the pending read fails with NNG_ECLOSED, and a read or send
\* posted next fails with NNG_ECLOSED and sends nothing.
C16_Disconnect ==
    /\ [][RecvStep /\ RecvFrame \in PeerDisc(ReasmPipe)
            => /\ pipe'[ReasmPipe].zp_closed
               /\ pipe'[ReasmPipe].zp_user_rxaio = NULL
               /\ ev'.fin =
                      IF pipe[ReasmPipe].zp_user_rxaio = NULL THEN <<>>
                      ELSE Failed(pipe[ReasmPipe].zp_user_rxaio,
                                  NNG_ECLOSED)]_vars
    /\ [][/\ ev.op[1] = "virtual_recv"
          /\ ev.op[2] \in PeerDisc(ReasmPipe)
          /\ ev'.op[1] \in {"pipe_recv", "pipe_send"}
          => /\ \E a \in ReadAios \cup {SdAio(ReasmPipe)} :
                   ev'.fin = Failed(a, NNG_ECLOSED)
             /\ ev'.sent = <<>>]_vars

\* C17: the cancel of a pending connect finishes the connect aio with the
\* cancel code and cancels the connect-request timer (try is 0 and the
\* timer aio is no longer running); while no connect is outstanding no
\* CONN_REQ is sent and no CONN_ACK creates a pipe.
C17_CancelStopsTimer ==
    /\ [][/\ ev'.op = <<"ep_cancel", 2, ConnAio(2)>>
          /\ ListActive(ep[2].ze_aios, ConnAio(2))
          => /\ ev'.fin = Failed(ConnAio(2), NNG_ECANCELED)
             /\ ep'[2].ze_creq_try = 0
             /\ ep'[2].creq_st # "armed"]_vars
    /\ [][ConnAio(2) \notin aio_out /\ ev'.op[1] # "connect"
            => /\ \A k \in DOMAIN ev'.sent :
                      ev'.sent[k].op # zt_op_conn_req
               /\ Created = {}]_vars

\* C18: the cancel of the read that is pending on the pipe, or of an accept
\* that waits on the endpoint, removes exactly that aio and finishes it once
\* with the cancel code; the cancel of an aio that is not the one waiting
\* removes nothing, leaves the pending aio in place and finishes no aio
\* that had finished already.
C18_CancelExact ==
    /\ [][\A a \in ReadAios :
             ev'.op = <<"cancel_recv", ReasmPipe, a>>
                 => IF pipe[ReasmPipe].zp_user_rxaio = a
                    THEN /\ pipe'[ReasmPipe].zp_user_rxaio = NULL
                         /\ ev'.fin = Failed(a, NNG_ECANCELED)
                    ELSE /\ pipe' = pipe
                         /\ \A k \in DOMAIN ev'.fin : ev'.fin[k].live
                         /\ ~crashed']_vars
    /\ [][\A a \in AcceptAios(1) :
             ev'.op = <<"ep_cancel", 1, a>>
                 => IF ListActive(ep[1].ze_aios, a)
                    THEN /\ ep'[1].ze_aios = ListRemove(ep[1].ze_aios, a)
                         /\ ev'.fin = Failed(a, NNG_ECANCELED)
                    ELSE /\ ep' = ep
                         /\ ev'.fin = <<>>]_vars

----------------------------------------------------------------------------
(* The life of the listener: bound, serving connection requests, closed.   *)

NextLife ==
    \/ Bind(1)
    \/ Accept(1)
    \/ Inject(ListenFrames)
    \/ \E p \in PipeIds : PipeClose(p)
    \/ \E p \in PipeIds : PipeFini(p)
    \/ EpClose(1)

SpecLife == Init /\ [][NextLife]_vars

Bound(e) == ep[e].ze_laddr = ListenAddr

----------------------------------------------------------------------------
(* Repeated connection requests at the listener.                           *)

\* C20 (as stated): a CONN_REQ from an address whose earlier request the
\* listener has recorded (still queued, or accepted into a pipe) causes a
\* CONN_ACK to be sent to that address and has no other effect.
C20_AsStated ==
    [][/\ ConnReqArrived(1)'
       /\ \/ ev'.op[2].src \in DOMAIN zn_peers
          \/ InBacklog(ep[1], ev'.op[2].src)
       => /\ Len(ev'.sent) = 1
          /\ AcksTo(ev'.sent) = {ev'.op[2].src}
          /\ ev'.fin = <<>>
          /\ UNCHANGED <<ep, pipe, zn_eps, zn_pipes, zn_peers, zn_ports,
                         aio_out>>]_vars

\* C20: a repeated CONN_REQ from an address R that has an established pipe
\* causes exactly one CONN_ACK, sent to R from the address of that pipe
\* with the protocol of the listener, and has no other effect; a repeated
\* CONN_REQ from an address whose request is still queued in the backlog is
\* dropped: nothing is sent and nothing changes.
C20_RepeatAcked ==
    [][ConnReqArrived(1)'
         => LET r == ev'.op[2].src
            IN  /\ r \in DOMAIN zn_peers
                       => ev'.sent =
                              <<Frame(zt_op_conn_ack, r,
                                      pipe[zn_peers[r]].zp_laddr,
                                      <<SpProto(1)>>, <<>>,
                                      zt_size_conn_ack)>>
                /\ r \notin DOMAIN zn_peers /\ InBacklog(ep[1], r)
                       => ev'.sent = <<>>
                /\ r \in DOMAIN zn_peers \/ InBacklog(ep[1], r)
                       => /\ ev'.fin = <<>>
                          /\ UNCHANGED <<ep, pipe, zn_eps, zn_pipes,
                                         zn_peers, zn_ports, aio_out>>]_vars

\* With other requests still queued, the CONN_REQ of a dialer that has its
\* pipe arrived again and was answered from the address of the pipe.
C20_Witness ==
    /\ ConnReqArrived(1)
    /\ ev.op[2].src \in DOMAIN zn_peers
    /\ ev.sent = <<Frame(zt_op_conn_ack, ev.op[2].src,
                         pipe[zn_peers[ev.op[2].src]].zp_laddr,
                         <<SpProto(1)>>, <<>>, zt_size_conn_ack)>>
    /\ ep[1].ze_creq_head > ep[1].ze_creq_tail
    /\ pipe[zn_peers[ev.op[2].src]].zp_user

----------------------------------------------------------------------------
(* Fragments that contradict the slot of their message.                    *)

\* The slots of the pipe that hold message id with other parameters than
\* the DATA frame f announces.
Mismatched(f) ==
    {i \in Slots : /\ Slot(i).fl_msgid = f.arg[1]
                   /\ \/ Slot(i).fl_fragsz # f.arg[2]
                      \/ Slot(i).fl_nfrags # f.arg[4]}

\* C21: a fragment for a message id that occupies a slot, with a fragment
\* size or a fragment count other than the slot recorded, resets the slot
\* (the partial message is dropped, no read is completed with it) and sends
\* one ERROR(PROTO) frame to the peer.
C21_ParamsChanged ==
    [][ev'.op[1] = "recv_data" /\ Mismatched(ev'.op[2]) # {} /\ ~crashed'
         => /\ \A i \in Mismatched(ev'.op[2]) :
                   /\ pipe'[ReasmPipe].zp_recvq[i].fl_msgid = 0
                   /\ ~pipe'[ReasmPipe].zp_recvq[i].fl_ready
            /\ ev'.fin = <<>>
            /\ Len(ev'.sent) = 1
            /\ ev'.sent[1].op = zt_op_error
            /\ ev'.sent[1].arg = <<zt_err_proto>>
            /\ ev'.sent[1].dst = pipe[ReasmPipe].zp_raddr]_vars

\* The frame f shows its message to be longer than recv-max of the pipe:
\* by its fragment count and size, or by being the last fragment.
TooLong(f) ==
    \/ f.arg[4] * f.arg[2] >= pipe[ReasmPipe].zp_rcvmax + f.arg[2]
    \/ /\ f.arg[3] = f.arg[4] - 1
       /\ (f.arg[4] - 1) * f.arg[2] + Len(f.body) > pipe[ReasmPipe].zp_rcvmax

\* C26: when a fragment shows its message to be longer than recv-max and
\* the reassembly is abandoned, the read pending on the pipe (no message is
\* ready for it) fails with NNG_EMSGSIZE.
C26_ReadFails ==
    [][LET f == ev'.op[2]
           aio == pipe[ReasmPipe].zp_user_rxaio
       IN  /\ ev'.op[1] = "recv_data" /\ ~crashed'
           /\ TooLong(f)
           /\ aio # NULL
           /\ \A i \in Slots : ~Slot(i).fl_ready
           => ev'.fin = Failed(aio, NNG_EMSGSIZE)]_vars

----------------------------------------------------------------------------
(* Binding: the listener configured with its well-known port or with port  *)
(* 0, the dialer binding at its connect.                                   *)

InitBind ==
    \E l \in {Addr(0, ListenPort), 0} :
        Starts([Built EXCEPT !.ep[1].ze_laddr = l])

SpecBind == InitBind /\ [][NextReply]_vars

\* The port endpoint e asks for.
AskedPort(e) == ep[e].ze_laddr % (zt_port_mask + 1)

\* Endpoint e got port and is registered under it.
BoundAt(e, port) ==
    /\ ep'[e].ze_laddr = Addr(zn_self, port)
    /\ zn_ports' = nni_idhash_put(zn_ports, port, <<"ep", e>>)
    /\ zn_eps' = nni_idhash_put(zn_eps, Addr(zn_self, port), e)

\* C22: the bind of a listener asking for a nonzero port that is in the port
\* registry fails with NNG_EADDRINUSE and changes neither the registry nor
\* the endpoint index; asking for port 0 it gets a free port of
\* zt_ephemeral..zt_max_port; a bind that succeeds registers the endpoint
\* under (self, port) and records the port.
C22_Bind ==
    [][\A e \in Listeners :
          ev'.op[1] = "bind" /\ ev'.op[2] = e
              => IF AskedPort(e) # 0 /\ nni_idhash_find(zn_ports, AskedPort(e))
                 THEN /\ ev'.op[3] = NNG_EADDRINUSE
                      /\ UNCHANGED <<zn_ports, zn_eps, ep>>
                 ELSE /\ ev'.op[3] = NNG_OK
                      /\ \E port \in (DOMAIN zn_ports') \ DOMAIN zn_ports :
                            /\ BoundAt(e, port)
                            /\ AskedPort(e) # 0 => port = AskedPort(e)
                            /\ AskedPort(e) = 0
                                   => /\ port >= zt_ephemeral
                                      /\ port <= zt_max_port]_vars

\* The listener asked for port 0 after the dialer had taken a port, got
\* another ephemeral port, and a second bind has just failed.
C22_Witness ==
    /\ ev.op = <<"bind", 1, NNG_EADDRINUSE>>
    /\ AddrPort(ep[1].ze_laddr) >= zt_ephemeral
    /\ zn_eps[ep[1].ze_laddr] = 1
    /\ \E a \in DOMAIN zn_eps : zn_eps[a] = 2 /\ a # ep[1].ze_laddr

\* C23: a connect on a dialer that is still bound (registered under its
\* laddr from an earlier connect that failed) keeps that laddr, sets try to
\* 1 and sends a CONN_REQ from it; the connect aio is not failed.
C23_Reconnect ==
    [][/\ ev'.op = <<"connect", 2>>
       /\ AskedPort(2) # 0
       /\ nni_idhash_find(zn_eps, ep[2].ze_laddr)
       /\ zn_eps[ep[2].ze_laddr] = 2
       => /\ ep'[2].ze_laddr = ep[2].ze_laddr
          /\ ep'[2].ze_creq_try = 1
          /\ ev'.fin = <<>>
          /\ ConnAio(2) \in aio_out'
          /\ Len(ev'.sent) = 1
          /\ ev'.sent[1].op = zt_op_conn_req
          /\ ev'.sent[1].src = ep[2].ze_laddr
          /\ UNCHANGED <<zn_ports, zn_eps>>]_vars

----------------------------------------------------------------------------
(* Nodes and their users: endpoints are made, given a home, closed and     *)
(* freed, and the transport is finalised once no endpoint is left.         *)

NodeResults == {NNG_OK, NNG_ENOMEM}         \* results of zt_node_create

EpInit(e) ==
    /\ ~crashed
    /\ ~ep[e].ze_alloc
    /\ \E rv \in NodeResults :
          Commit(zt_ep_init(Enter(St, <<"ep_init", e>>), e, rv))

EpSetHome(e, data) ==
    /\ ~crashed
    /\ ep[e].ze_alloc
    /\ ~ep[e].ze_closed
    /\ \E rv \in NodeResults :
          Commit(zt_ep_setopt(Enter(St, <<"ep_setopt", e, data>>), e, data,
                              rv))

EpFini(e) ==
    /\ ~crashed
    /\ ep[e].ze_alloc
    /\ ep[e].ze_closed
    /\ Commit(zt_ep_fini(Enter(St, <<"ep_fini", e>>), e))

\* The library is finalised after every socket has been closed.
TranFini ==
    /\ ~crashed
    /\ \A e \in EpIds : ~ep[e].ze_alloc
    /\ \A p \in PipeIds : pipe[p].zp_st = "none"
    /\ \E h \in DOMAIN zt_nodes : zt_nodes[h].listed
    /\ Commit(zt_tran_fini(Enter(St, <<"tran_fini">>)))

\* No node and no endpoint has been made.
InitNode ==
    Starts([Built EXCEPT
               !.nodes = IdEmpty,
               !.ep = [e \in EpIds |->
                          [NewEp(e) EXCEPT !.ze_alloc = FALSE,
                                           !.ze_ztn = NoNode]]])

NextNode ==
    \/ \E e \in EpIds : EpInit(e)
    \/ \E e \in EpIds, h \in Homes : EpSetHome(e, h)
    \/ \E e \in EpIds : EpClose(e)
    \/ \E e \in EpIds : EpFini(e)
    \/ TranFini

SpecNode == InitNode /\ [][NextNode]_vars

\* The endpoints and pipes using the node of home h.
Users(h) ==
    {<<"ep", e>> : e \in {x \in EpIds : ep[x].ze_alloc /\ ep[x].ze_ztn = h}}
    \cup {<<"pipe", p>> : p \in {x \in PipeIds :
                                     /\ pipe[x].zp_st = "open"
                                     /\ ep[pipe[x].zp_ep].ze_ztn = h}}

\* C24: a node is off the list of nodes, marked closed and destroyed exactly
\* when no endpoint and no pipe uses it: it goes with the release of its
\* last user and never while an endpoint or a pipe still refers to it.
C24_NodeRefs ==
    \A h \in DOMAIN zt_nodes :
        (Users(h) = {}) <=> /\ zt_nodes[h].destroyed
                            /\ zt_nodes[h].zn_closed
                            /\ ~zt_nodes[h].listed

----------------------------------------------------------------------------
(* The global lock.                                                        *)

\* C25: a handler touches the indexes, the try counter of an endpoint and
\* the pending-read slot of a pipe only while it holds zt_lk, and when it
\* returns it has released zt_lk exactly as often as it has taken it.
C25_Locked == ev.lk = NoLock

----------------------------------------------------------------------------
(* Dispatch of the frames that arrive.                                     *)

\* C27: a DATA or DATA_MF frame that arrives at an open pipe from the peer
\* of the pipe is handed to the reassembly: the slots of the pipe and the
\* reads completed are what zt_pipe_recv_data makes of the frame, which
\* stores the fragment, scans the slots and hands the first ready message
\* to the pending read.
C27_DataDispatched ==
    [][LET f == RecvFrame
           p == zn_pipes[f.dst]
       IN  /\ RecvStep /\ ~crashed'
           /\ f.op \in {zt_op_data, zt_op_data_mf}
           /\ f.len >= zt_size_headers
           /\ f.dst \in DOMAIN zn_pipes
           /\ pipe[p].zp_st = "open"
           /\ pipe[p].zp_raddr = f.src
           => \E ub \in UbOutcomes :
                 LET r == zt_pipe_recv_data(Enter(St, ev'.op), p, f, ub)
                 IN  /\ ~r.crashed
                     /\ pipe'[p] = r.pipe[p]
                     /\ ev'.fin = r.ev.fin]_vars

\* Every opcode of the protocol, and a value that is none.
Opcodes ==
    {zt_op_data, zt_op_data_mf, zt_op_conn_req, zt_op_conn_ack,
     zt_op_disc_req, zt_op_ping_req, zt_op_ping_ack, zt_op_error,
     zt_op_error + 1}

\* An address of this node that nothing is registered under.
StrayAddr == Addr(zn_self, ListenPort + 1)

\* The frames of F with one field of the header spoilt.
Malformed(F) ==
    UNION {{[f EXCEPT !.ethertype = zt_ethertype + 1],
            [f EXCEPT !.len = zt_size_headers - 1],
            [f EXCEPT !.flags = 1],
            [f EXCEPT !.zero1 = 1],
            [f EXCEPT !.zero2 = 1],
            [f EXCEPT !.version = 0],
            [f EXCEPT !.version = zt_version + 1]} : f \in F}

\* The frames that arrive at the node of pipe p: those of the peer of the
\* pipe; the same from another remote endpoint; frames of every opcode for
\* the address nothing is registered under; and frames for the pipe, the
\* listener and that address with a spoilt header.
PipeFrames(p) ==
    LET peer == PeerDisc(p) \cup PeerData(p)
        foreign == {[f EXCEPT !.src = EnvSrc] : f \in peer}
        stray == {Frame(op, StrayAddr, EnvSrc, <<EnvProto>>, <<>>,
                        zt_size_conn_req) : op \in Opcodes}
    IN  peer \cup foreign \cup stray
            \cup Malformed(peer \cup {ConnReqFrame(ListenAddr, EnvSrc),
                                      ConnReqFrame(StrayAddr, EnvSrc)})

\* CONN_REQ and CONN_ACK frames of a remote endpoint for the endpoints
\* registered, of the right length, one byte short and one byte long.
ProtoFrames ==
    UNION {{[f EXCEPT !.len = l] :
               f \in {ConnReqFrame(d, EnvSrc), ConnAckFrame(d, EnvSrc)},
               l \in {zt_size_conn_req - 1, zt_size_conn_req,
                      zt_size_conn_req + 1}} :
           d \in DOMAIN zn_eps}

\* ERROR frames of the peer of pipe p and of another remote endpoint, for
\* the pipe, for the endpoints registered and for the address nothing is
\* registered under.
ErrorFrames(p) ==
    {ErrFrame(d, src, zt_err_notconn) :
        d \in {pipe[p].zp_laddr, StrayAddr} \cup DOMAIN zn_eps,
        src \in {RemoteDialer(1), EnvSrc}}

\* The pipe accepted has the address of the remote dialer as its raddr, or
\* the address 0 of a request that carried no source.
InitFrames ==
    \E src \in {RemoteDialer(1), 0} :
        Starts(AcceptedFrom([mtu |-> PhyMtu, rcvmax |-> RcvMax], src))

NextFrames ==
    \/ PipeRecv(ReasmPipe)
    \/ PipeClose(ReasmPipe)
    \/ Connect(2)
    \/ Inject(PipeFrames(ReasmPipe) \cup ProtoFrames
                  \cup ErrorFrames(ReasmPipe))

SpecFrames == InitFrames /\ [][NextFrames]_vars

\* The header of frame f passes the tests of zt_virtual_recv.
HeaderValid(f) ==
    /\ f.ethertype = zt_ethertype
    /\ f.len >= zt_size_headers
    /\ f.flags = 0 /\ f.zero1 = 0 /\ f.zero2 = 0
    /\ f.version = zt_version

\* The step sends one frame: an ERROR with code err from the destination
\* of f to its source.
Answered(f, err) ==
    /\ Len(ev'.sent) = 1
    /\ ev'.sent[1].op = zt_op_error
    /\ ev'.sent[1].arg = <<err>>
    /\ ev'.sent[1].dst = f.src
    /\ ev'.sent[1].src = f.dst

\* C28: a valid frame for an address that no pipe and no endpoint is
\* registered under is answered with ERROR(REFUSED) when it is a CONN_REQ,
\* with ERROR(NOTCONN) when it is a DATA, PING_REQ or CONN_ACK, and not at
\* all otherwise; it changes no index, no endpoint and no pipe and
\* completes no aio.
C28_Unknown ==
    [][LET f == RecvFrame
       IN  /\ RecvStep
           /\ HeaderValid(f)
           /\ f.dst \notin DOMAIN zn_pipes
           /\ f.dst \notin DOMAIN zn_eps
           => /\ UNCHANGED <<zn_ports, zn_dynval, zn_eps, zn_pipes, zn_peers,
                             ep, pipe, aio_out, zt_nodes>>
              /\ ev'.fin = <<>>
              /\ IF f.op = zt_op_conn_req THEN Answered(f, zt_err_refused)
                 ELSE IF f.op \in {zt_op_data, zt_op_ping_req, zt_op_conn_ack}
                 THEN Answered(f, zt_err_notconn)
                 ELSE ev'.sent = <<>>]_vars

\* A PING_REQ for the unregistered address has been answered with
\* ERROR(NOTCONN) while the listener is bound and its pipe is open.
C28_Witness ==
    /\ ev.op[1] = "virtual_recv"
    /\ ev.op[2].op = zt_op_ping_req
    /\ ev.op[2].dst = StrayAddr
    /\ Len(ev.sent) = 1
    /\ ev.sent[1].arg = <<zt_err_notconn>>
    /\ ev.sent[1].dst = EnvSrc
    /\ pipe[ReasmPipe].zp_st = "open"
    /\ zn_eps[ListenAddr] = 1

\* C29: a valid frame for the laddr of a pipe is handed to the pipe when it
\* comes from the raddr of the pipe, or when the raddr of the pipe is 0,
\* which then becomes the source of the frame; from any other source it is
\* answered with ERROR(NOTCONN) and leaves the pipe (closed flag, pending
\* read, slots, raddr) as it was and completes no aio.
C29_SourceChecked ==
    [][LET f == RecvFrame
           p == zn_pipes[f.dst]
           learnt == [St EXCEPT !.pipe[p].zp_raddr = f.src]
       IN  /\ RecvStep
           /\ HeaderValid(f)
           /\ f.dst \in DOMAIN zn_pipes
           => IF pipe[p].zp_raddr \in {f.src, 0}
              THEN /\ pipe'[p].zp_raddr = f.src
                   /\ pipe'[p] =
                          zt_pipe_virtual_recv(Enter(learnt, ev'.op), p,
                                               f).pipe[p]
              ELSE /\ pipe'[p] = pipe[p]
                   /\ ev'.fin = <<>>
                   /\ Answered(f, zt_err_notconn)]_vars

\* A DISC_REQ from an address other than the raddr of the pipe has arrived
\* at the laddr of the pipe, which has a read pending and stays open.
C29_Witness ==
    /\ ev.op[1] = "virtual_recv"
    /\ ev.op[2].op = zt_op_disc_req
    /\ ev.op[2].dst = pipe[ReasmPipe].zp_laddr
    /\ ev.op[2].src = EnvSrc
    /\ HeaderValid(ev.op[2])
    /\ pipe[ReasmPipe].zp_raddr = RemoteDialer(1)
    /\ pipe[ReasmPipe].zp_user_rxaio # NULL
    /\ ~pipe[ReasmPipe].zp_closed
    /\ Len(ev.sent) = 1

\* C30: a frame with another ethertype, shorter than the 12 bytes of the
\* headers, with flags or a reserved byte that is not zero, or of a version
\* other than 1 is dropped: the indexes, endpoints (with their backlog) and
\* pipes (with their slots) stay as they are, no aio is completed and no
\* frame is sent.
C30_Dropped ==
    [][RecvStep /\ ~HeaderValid(RecvFrame)
         => NothingChanged /\ UNCHANGED <<net, zt_nodes>>]_vars

\* The DISC_REQ of the peer, with version 2 in its header, has arrived at
\* the pipe, which has a read pending and stays open.
C30_Witness ==
    /\ ev.op[1] = "virtual_recv"
    /\ ev.op[2].op = zt_op_disc_req
    /\ ev.op[2].version = zt_version + 1
    /\ ev.op[2].dst = pipe[ReasmPipe].zp_laddr
    /\ ev.op[2].src = pipe[ReasmPipe].zp_raddr
    /\ pipe[ReasmPipe].zp_user_rxaio # NULL
    /\ ~pipe[ReasmPipe].zp_closed

\* C31: a CONN_REQ or CONN_ACK that arrives at an endpoint with a length
\* other than its 14 bytes, a CONN_REQ at a dialer and a CONN_ACK at a
\* listener are answered with one ERROR(PROTO); no pipe is made, the
\* endpoint (backlog, try, address) and the indexes stay as they are and no
\* aio is completed.
C31_Proto ==
    [][LET f == RecvFrame
           e == zn_eps[f.dst]
       IN  /\ RecvStep
           /\ HeaderValid(f)
           /\ AtEp(f)
           /\ \/ f.op = zt_op_conn_req
                    /\ (f.len # zt_size_conn_req \/ ep[e].ze_mode = "DIAL")
              \/ f.op = zt_op_conn_ack
                    /\ (f.len # zt_size_conn_ack \/ ep[e].ze_mode = "LISTEN")
           => /\ Answered(f, zt_err_proto)
              /\ ev'.fin = <<>>
              /\ UNCHANGED <<zn_ports, zn_dynval, zn_eps, zn_pipes, zn_peers,
                             ep, pipe, aio_out>>]_vars

\* A CONN_ACK one byte too long has arrived at dialer 2, whose connect is
\* outstanding and stays so: try is 1, the dialer keeps its address and
\* has no pipe.
C31_Witness ==
    /\ ev.op[1] = "virtual_recv"
    /\ ev.op[2].op = zt_op_conn_ack
    /\ ev.op[2].len = zt_size_conn_ack + 1
    /\ ev.op[2].dst \in DOMAIN zn_eps
    /\ zn_eps[ev.op[2].dst] = 2
    /\ ep[2].ze_creq_try = 1
    /\ ep[2].creq_st = "armed"
    /\ ConnAio(2) \in aio_out
    /\ Len(ev.sent) = 1
    /\ ev.sent[1].arg = <<zt_err_proto>>

----------------------------------------------------------------------------
(* Sending.                                                                *)

\* Values of zp_next_msgid around the wrap of the 16-bit counter: those
\* nni_random() gives a new pipe, and those a pipe sends with.
MsgIdSeeds == {65533, 65534, 65535, 0}
SendIds == MsgIdSeeds \cup {1}

\* zt_pipe_send on a pipe whose counter is near the wrap; the record of
\* the sends completed before is dropped, so that send follows send.
PipeSendAgain(p) ==
    /\ ~crashed
    /\ pipe[p].zp_user
    /\ pipe[p].zp_next_msgid \in SendIds
    /\ \E iov \in SendInputs, fragno0 \in FragNos, dbg \in BOOLEAN :
          Commit(zt_pipe_send([Enter(St, <<"pipe_send", p, iov>>)
                                  EXCEPT !.tx_log = <<>>],
                              p, SdAio(p), iov, fragno0, dbg))

InitSend ==
    \E r \in MsgIdSeeds :
        Starts([Accepted([mtu |-> PhyMtu, rcvmax |-> RcvMax])
                   EXCEPT !.pipe[ReasmPipe].zp_next_msgid = r])

NextSend ==
    \/ PipeSendAgain(ReasmPipe)
    \/ PipeRecv(ReasmPipe)
    \/ PipeClose(ReasmPipe)

SpecSend == InitSend /\ [][NextSend]_vars

\* C32: a send of a message of nfrags fragments on an open pipe emits
\* nfrags frames to the peer, numbered 0..nfrags-1 in order, with one
\* message id, the fragment size and nfrags in each, the opcode DATA_MF in
\* all but the last and DATA in the last, and then completes the aio of
\* the send successfully.
C32_Fragments ==
    [][\A p \in PipeIds :
          LET iov == ev'.op[3]
              bytes == Len(Flatten(iov))
              fragsz == FragSz(p)
              nfrags == (bytes + (fragsz - 1)) \div fragsz
          IN  /\ ev'.op[1] = "pipe_send" /\ ev'.op[2] = p
              /\ ~pipe[p].zp_closed
              /\ bytes > 0
              => /\ ~crashed'
                 /\ Len(ev'.sent) = nfrags
                 /\ \A k \in 1..nfrags :
                       /\ ev'.sent[k].dst = pipe[p].zp_raddr
                       /\ ev'.sent[k].arg[1] = ev'.sent[1].arg[1]
                       /\ ev'.sent[k].arg[2] = fragsz
                       /\ ev'.sent[k].arg[3] = k - 1
                       /\ ev'.sent[k].arg[4] = nfrags
                       /\ ev'.sent[k].op = IF k < nfrags THEN zt_op_data_mf
                                           ELSE zt_op_data
                 /\ Len(ev'.fin) = 1
                 /\ ev'.fin[1].aio = SdAio(p)
                 /\ ev'.fin[1].rv = NNG_OK]_vars

\* C33: no DATA frame of a send carries the message id 0, also when the
\* counter of the pipe wraps from 65535, and a send that follows a send on
\* the same pipe uses another id.
C33_MsgIds ==
    [][ev'.op[1] = "pipe_send" /\ ev'.sent # <<>>
         => /\ \A k \in DOMAIN ev'.sent : ev'.sent[k].arg[1] # 0
            /\ ev.op[1] = "pipe_send" /\ ev.op[2] = ev'.op[2]
                  /\ ev.sent # <<>>
               => ev'.sent[1].arg[1] # ev.sent[1].arg[1]]_vars

\* The send that follows the one with id 65535 has gone out with id 1: the
\* counter has passed 0 and stands at 2.
C33_Witness ==
    /\ ev.op[1] = "pipe_send"
    /\ ~crashed
    /\ Len(ev.sent) = 1
    /\ ev.sent[1].arg[1] = 1
    /\ pipe[ReasmPipe].zp_next_msgid = 2
    /\ Len(ev.fin) = 1
    /\ ev.fin[1].rv = NNG_OK

----------------------------------------------------------------------------
(* Connection requests that are queued already.                            *)

----------------------------------------------------------------------------
(* The choice and the set-up of a reassembly slot.                         *)

\* The fragments the bitmap of the slot marks as missing.
MissingFrags(fl) ==
    UNION {{8 * k + b : b \in fl.fl_missing[k]} : k \in DOMAIN fl.fl_missing}

\* C35: a fragment goes to the slot that holds its message id; when no slot
\* does, it takes over the slot with the oldest first-fragment time, never
\* one that holds a message while an empty slot exists, and that slot is
\* set up for the new message: a buffer of nfrags * fragsz bytes (less the
\* chop of a short last fragment), a bitmap with exactly the other
\* fragments of 0..nfrags-1 missing, the first-fragment time now.
C35_SlotTaken ==
    [][LET f == ev'.op[2]
           id == f.arg[1]
           fragsz == f.arg[2]
           fragno == f.arg[3]
           nfrags == f.arg[4]
           q == pipe[ReasmPipe].zp_recvq
           q1 == pipe'[ReasmPipe].zp_recvq
       IN  /\ ev'.op[1] = "recv_data"
           /\ ~crashed'
           /\ now <= zt_recv_stale
           /\ nfrags >= 2
           /\ nfrags * fragsz < pipe[ReasmPipe].zp_rcvmax + fragsz
           => IF \E i \in Slots : q[i].fl_msgid = id
              THEN \A j \in Slots : q1[j].fl_msgid = id => q[j].fl_msgid = id
              ELSE \E i \in Slots :
                      /\ \A j \in Slots : q[j].fl_time >= q[i].fl_time
                      /\ q[i].fl_msgid # 0
                            => \A j \in Slots : q[j].fl_msgid # 0
                      /\ q1[i].fl_msgid = id
                      /\ q1[i].fl_time = now'
                      /\ q1[i].fl_nfrags = nfrags
                      /\ q1[i].fl_fragsz = fragsz
                      /\ Len(q1[i].fl_msg) =
                             nfrags * fragsz -
                                 (IF fragno = nfrags - 1
                                  THEN fragsz - Len(f.body) ELSE 0)
                      /\ MissingFrags(q1[i]) = (0..(nfrags - 1)) \ {fragno}]_vars

\* C36: a slot that is ready stays ready with its message until the step
\* that hands the message to a read or that closes the pipe: neither the
\* sweep of stale slots nor a fragment of another message clears it.
C36_ReadyKept ==
    [][\A i \in Slots :
          /\ Slot(i).fl_ready
          /\ pipe[ReasmPipe].zp_st = "open"
          /\ ~crashed'
          => \/ /\ pipe'[ReasmPipe].zp_recvq[i].fl_ready
                /\ pipe'[ReasmPipe].zp_recvq[i].fl_msgid = Slot(i).fl_msgid
             \/ /\ Len(rx_log') = Len(rx_log) + 1
                /\ rx_log'[Len(rx_log')].msg = Slot(i).fl_msg
             \/ ev'.op[1] \in {"pipe_close", "pipe_fini"}]_vars

----------------------------------------------------------------------------
(* ERROR frames received.                                                  *)

\* C37: the receipt of an ERROR frame, whatever its source and destination,
\* sends no ERROR frame.
C37_NoErrorForError ==
    [][RecvStep /\ HeaderValid(RecvFrame) /\ RecvFrame.op = zt_op_error
          => \A k \in DOMAIN ev'.sent : ev'.sent[k].op # zt_op_error]_vars

----------------------------------------------------------------------------
(* The pipe of a dialer.                                                   *)

\* C38: a pipe that a dialer made on a CONN_ACK and that is registered in
\* zn_pipes and zn_peers has been handed to a user connect aio, or the
\* completion callback of the connect request that carries it has yet to
\* run; whatever the order of CONN_ACK, timer, cancel and callback.
C38_Delivered ==
    \A p \in PipeIds :
        /\ ~crashed
        /\ pipe[p].zp_st = "open"
        /\ pipe[p].zp_ep \in Dialers
        /\ nni_idhash_find(zn_pipes, pipe[p].zp_laddr)
        /\ nni_idhash_find(zn_peers, pipe[p].zp_raddr)
        => \/ pipe[p].zp_user
           \/ /\ ep[pipe[p].zp_ep].creq_st = "done"
              /\ ep[pipe[p].zp_ep].creq_pipe = p

----------------------------------------------------------------------------
(* A pipe that cannot be registered.                                       *)

\* C39: an accept that takes a backlog entry whose remote address has a
\* pipe in zn_peers already fails: the accept aio is finished with an
\* error and no pipe, no CONN_ACK is sent, and zn_pipes and zn_peers keep
\* the entries of the pipes that exist.
C39_InitFails ==
    [][\A e \in Listeners :
          LET x == ep[e]
              creq == x.ze_creqs[x.ze_creq_tail % zt_listenq]
          IN  /\ ev'.op = <<"accept", e>>
              /\ x.ze_aios = <<>>
              /\ x.ze_creq_tail # x.ze_creq_head
              /\ ~(creq.cr_expire < now)
              /\ nni_idhash_find(zn_peers, creq.cr_raddr)
              => /\ ~crashed'
                 /\ Len(ev'.fin) = 1
                 /\ ev'.fin[1].rv # NNG_OK
                 /\ ev'.fin[1].pipe = NULL
                 /\ \A k \in DOMAIN ev'.sent : ev'.sent[k].op # zt_op_conn_ack
                 /\ zn_pipes' = zn_pipes
                 /\ zn_peers' = zn_peers]_vars

----------------------------------------------------------------------------
(* The port registry.                                                      *)

\* Endpoints and pipes from their creation to their close and finalization.
NextPorts ==
    \/ Inject(EnvFrames)
    \/ \E e \in EpIds : Bind(e)
    \/ Accept(1)
    \/ Connect(2)
    \/ \E e \in EpIds : ConnReqCb(e)
    \/ \E p \in PipeIds : PipeClose(p)
    \/ \E p \in PipeIds : PipeFini(p)
    \/ \E e \in EpIds : EpClose(e)

\* The third endpoint is a second listener, made from the URL of the first.
InitPorts ==
    Starts([Built EXCEPT !.ep[3] = [NewEp(1) EXCEPT !.ze_proto = SpProto(3)]])

SpecPorts == InitPorts /\ [][NextPorts]_vars

PortOf(addr) == addr % (zt_port_mask + 1)

\* The bound, open endpoints and the pipes not finalized whose laddr has
\* the port.
PortUsers(port) ==
    {<<"ep", e>> : e \in {d \in EpIds : /\ ~ep[d].ze_closed
                                        /\ ep[d].ze_laddr \div (zt_port_mask + 1)
                                               = zn_self
                                        /\ PortOf(ep[d].ze_laddr) = port}}
        \cup {<<"pipe", p>> : p \in {q \in PipeIds :
                                        /\ pipe[q].zp_st = "open"
                                        /\ PortOf(pipe[q].zp_laddr) = port}}

\* C40: every port in zn_ports is the port of the laddr of exactly one
\* bound, open endpoint or pipe not finalized; the port of an endpoint or
\* pipe that is registered is in zn_ports; and when every endpoint is
\* closed and every pipe finalized, zn_ports, zn_eps, zn_pipes and zn_peers
\* are empty.
C40_Ports ==
    ~crashed =>
        /\ \A port \in DOMAIN zn_ports : Cardinality(PortUsers(port)) = 1
        /\ \A a \in DOMAIN zn_eps :
              ~ep[zn_eps[a]].ze_closed => PortOf(a) \in DOMAIN zn_ports
        /\ \A a \in DOMAIN zn_pipes :
              pipe[zn_pipes[a]].zp_st = "open" => PortOf(a) \in DOMAIN zn_ports
        /\ /\ \A e \in EpIds : ep[e].ze_closed
           /\ \A p \in PipeIds : pipe[p].zp_st # "open"
           => /\ zn_ports = IdEmpty
              /\ zn_eps = IdEmpty
              /\ zn_pipes = IdEmpty
              /\ zn_peers = IdEmpty

====
